---- MODULE Spec2Model ----
(***************************************************************************)
(* Multi-issuer JWT bearer-token authorization of totvs/go-sdk (package    *)
(* auth): AuthorizationBearerToken.IsValidBearerToken, the issuers, and    *)
(* the HTTP middleware, in its three versions found in the repository.     *)
(*                                                                         *)
(* Go strings are sequences of atoms.  An atom is a TLA+ string that stands *)
(* for a run of bytes holding no space and no dot; SP, DOT and QUOTE are    *)
(* the one-byte atoms " ", "." and the double quote.                        *)
(***************************************************************************)
EXTENDS Integers, Sequences, FiniteSets, TLC

\* ------------------------------------------------------------------ bounds

\* Most parts (dot-separated segments) of a generated token.
MaxParts == 3

\* The verifier's clock; a payload's exp is compared with it.
Now == 100

\* ----------------------------------------------------------------- strings

SP == " "
DOT == "."
QUOTE == "\""
BACKSLASH == "\\"

\* The byte 0xFF, which is part of no valid UTF-8 sequence, and the character
\* U+FFFD.
BadByte == "0xFF"
Replacement == "U+FFFD"

\* The Go string "", as a sequence of atoms.
Empty == << >>

\* Index of the first occurrence of atom sep in s, 0 when there is none.
RECURSIVE IndexFrom(_, _, _)
IndexFrom(s, sep, i) ==
    IF i > Len(s) THEN 0
    ELSE IF s[i] = sep THEN i
    ELSE IndexFrom(s, sep, i + 1)

Index(s, sep) == IndexFrom(s, sep, 1)

\* strings.Split(s, sep) for a one-byte sep: every occurrence separates.
RECURSIVE Split(_, _)
Split(s, sep) ==
    LET i == Index(s, sep)
    IN  IF i = 0 THEN << s >>
        ELSE << SubSeq(s, 1, i - 1) >> \o Split(SubSeq(s, i + 1, Len(s)), sep)

\* strings.SplitN(s, sep, 2): only the first occurrence separates.
SplitFirst(s, sep) ==
    LET i == Index(s, sep)
    IN  IF i = 0 THEN << s >>
        ELSE << SubSeq(s, 1, i - 1), SubSeq(s, i + 1, Len(s)) >>

Contains(s, a) == \E i \in 1..Len(s) : s[i] = a

\* ------------------------------------------------------------------ errors
\* A Go error is its message, a sequence of atoms; nil is the empty sequence.

NilErr == << >>

\* ---------------------------------------------------- base64url and JSON
\* The payload segments the model draws tokens from, each with the bytes
\* base64.RawURLEncoding.DecodeString gives for it (a JSON text, kept as one
\* TLA+ string).  "11111" and the segments of the test suite are among them.

SegHeader == "eyJhbGciOiJSUzI1NiJ9"

B64 ==
    [ eyJhbGciOiJSUzI1NiJ9 |-> "{\"alg\":\"RS256\"}",
      eyJpc3MiOiIqLmZsdWlnLmlvIiwiYXVkIjoiZmx1aWdfYXV0aGVudGljYXRvcl9yZXNvdXJjZSIsImV4cCI6MjAwLCJlbWFpbCI6InRvdHZzQHRvdHZzLmNvbS5iciIsInJvbGVzIjpbImFkbWluIl19
          |-> "{\"iss\":\"*.fluig.io\",\"aud\":\"fluig_authenticator_resource\",\"exp\":200,\"email\":\"totvs@totvs.com.br\",\"roles\":[\"admin\"]}",
      eyJpc3MiOiIqLmZsdWlnLmlvIiwiYXVkIjoiZmx1aWdfYXV0aGVudGljYXRvcl9yZXNvdXJjZSIsImV4cCI6NTB9
          |-> "{\"iss\":\"*.fluig.io\",\"aud\":\"fluig_authenticator_resource\",\"exp\":50}",
      eyJpc3MiOiJodHRwczovL2FkbWluLnJhYy5kZXYudG90dnMuYXBwL3RvdHZzLnJhYyIsImV4cCI6MjAwLCJ0ZW5hbnRJZHBJZCI6ImJhc2UiLCJodHRwOi8vd3d3LnRuZi5jb20vaWRlbnRpdHkvY2xhaW1zL3RlbmFudElkIjoidDEifQ
          |-> "{\"iss\":\"https://admin.rac.dev.totvs.app/totvs.rac\",\"exp\":200,\"tenantIdpId\":\"base\",\"http://www.tnf.com/identity/claims/tenantId\":\"t1\"}",
      eyJpc3MiOiJodHRwczovL2FjY291bnRzLmdvb2dsZS5jb20iLCJleHAiOjIwMH0
          |-> "{\"iss\":\"https://accounts.google.com\",\"exp\":200}",
      eyJpc3MiOiJodHRwczovL3Vua25vd24uZXhhbXBsZS5jb20iLCJleHAiOjIwMH0
          |-> "{\"iss\":\"https://unknown.example.com\",\"exp\":200}",
      eyJhdWQiOiJhYmMifQ |-> "{\"aud\":\"abc\"}",
      eyJpc3MiOjEyM30 |-> "{\"iss\":123}",
      WzFd |-> "[1]",
      YWJj |-> "abc",
      bnVsbA |-> "null",
      eyJpc3MiOiIqLmZsdWlnLmlvIiwiYXVkIjpbImEiLCJiIl0sImV4cCI6MjAwfQ
          |-> "{\"iss\":\"*.fluig.io\",\"aud\":[\"a\",\"b\"],\"exp\":200}",
      eyJpc3MiOiJodHRwczovL3Vua25vd24uZXhhbXBsZS5jb21cbiouZmx1aWcuaW8iLCJleHAiOjIwMH0
          |-> "{\"iss\":\"https://unknown.example.com\\n*.fluig.io\",\"exp\":200}",
      eyJpc3MiOiJodHRwczovL2FjY291bnRzLmdvb2dsZS5jb21cbiouZmx1aWcuaW8iLCJleHAiOjIwMH0
          |-> "{\"iss\":\"https://accounts.google.com\\n*.fluig.io\",\"exp\":200}",
      eyJpc3MiOiIiLCJleHAiOjIwMH0 |-> "{\"iss\":\"\",\"exp\":200}",
      eyJpc3MiOiIqLmZsdWlnLmlvIiwiZXhwIjoxMDB9 |-> "{\"iss\":\"*.fluig.io\",\"exp\":100}",
      eyJpc3MiOiIqLmZsdWlnLmlvIiwiYXVkIjoiYTEiLCJleHAiOjIwMCwiZW1haWwiOiJlMSIsInJvbGVzIjpbImFkbWluIiwidXNlciJdLCJmdWxsTmFtZSI6IkpvaG4gRG9lIiwiY2xpZW50X2lkIjoiYzEiLCJ0ZW5hbnRJZHBJZCI6ImFiY2QiLCJjb21wYW55SWQiOiJjbzEifQ
          |-> "{\"iss\":\"*.fluig.io\",\"aud\":\"a1\",\"exp\":200,\"email\":\"e1\",\"roles\":[\"admin\",\"user\"],\"fullName\":\"John Doe\",\"client_id\":\"c1\",\"tenantIdpId\":\"abcd\",\"companyId\":\"co1\"}",
      eyJpc3MiOiIqLmZsdWlnLmlvIiwiYXVkIjoiIiwiZXhwIjoyMDAsImVtYWlsIjoiIiwicm9sZXMiOltdLCJmdWxsTmFtZSI6IiIsImNsaWVudF9pZCI6IiIsInRlbmFudElkcElkIjoiIiwiY29tcGFueUlkIjoiIn0
          |-> "{\"iss\":\"*.fluig.io\",\"aud\":\"\",\"exp\":200,\"email\":\"\",\"roles\":[],\"fullName\":\"\",\"client_id\":\"\",\"tenantIdpId\":\"\",\"companyId\":\"\"}",
      eyJpc3MiOiIqLmZsdWlnLmlvIiwiZXhwIjoyMDAsInJvbGVzIjpbInVzZXIiXX0
          |-> "{\"iss\":\"*.fluig.io\",\"exp\":200,\"roles\":[\"user\"]}",
      eyJpc3MiOiJodHRwczovL2FkbWluLnJhYy5kZXYudG90dnMuYXBwL3RvdHZzLnJhYyIsImV4cCI6MjAwLCJ0ZW5hbnRJZHBJZCI6ImJhc2UiLCJjb21wYW55SWQiOiJjbzEifQ
          |-> "{\"iss\":\"https://admin.rac.dev.totvs.app/totvs.rac\",\"exp\":200,\"tenantIdpId\":\"base\",\"companyId\":\"co1\"}",
      eyJpc3MiOiJodHRwczovL2FkbWluLnJhYy5kZXYudG90dnMuYXBwL3RvdHZzLnJhYyIsImV4cCI6MjAwLCJjb21wYW55SWQiOiJjbzEiLCJodHRwOi8vd3d3LnRuZi5jb20vaWRlbnRpdHkvY2xhaW1zL3RlbmFudElkIjoiIn0
          |-> "{\"iss\":\"https://admin.rac.dev.totvs.app/totvs.rac\",\"exp\":200,\"companyId\":\"co1\",\"http://www.tnf.com/identity/claims/tenantId\":\"\"}" ]

\* The segments that are not base64url: DecodeString fails on them.
NotBase64 == { "11111" }

PayloadSegs == (DOMAIN B64 \ { SegHeader }) \cup NotBase64

\* base64.RawURLEncoding.DecodeString of a token part (a sequence of atoms):
\* the bytes, or ok = FALSE for illegal base64 data.  The empty string decodes
\* to no bytes; a part holding a quote, or pieces the table does not know,
\* is illegal.
RawURLDecode(part) ==
    IF part = Empty THEN [ok |-> TRUE, bytes |-> ""]
    ELSE IF Len(part) = 1 /\ part[1] \in DOMAIN B64
         THEN [ok |-> TRUE, bytes |-> B64[part[1]]]
    ELSE [ok |-> FALSE, bytes |-> ""]

\* A parsed JSON value: t its type, s a string's lines (a Go string value is
\* the sequence of its lines, "" being the one empty line), a an array's
\* strings, n a number.
JStr(lines) == [t |-> "string", s |-> lines, a |-> << >>, n |-> 0]
JNum(k) == [t |-> "number", s |-> << >>, a |-> << >>, n |-> k]
JArr(xs) == [t |-> "array", s |-> << >>, a |-> xs, n |-> 0]
JAbsent == [t |-> "absent", s |-> << >>, a |-> << >>, n |-> 0]

EmptyString == << "" >>

JsonKeys == { "iss", "aud", "exp", "email", "roles", "tenantIdpId", "companyId",
              "client_id", "fullName", "racTenantId" }

\* An object with the given members; every other key is absent.
JObj(members) ==
    [ k \in JsonKeys |-> IF k \in DOMAIN members THEN members[k] ELSE JAbsent ]

NoMembers == [ k \in {} |-> JAbsent ]

\* encoding/json's reading of each byte string above: kind is "object",
\* "null", "other" (a valid value that is no object) or "invalid".
\* racTenantId stands for the key http://www.tnf.com/identity/claims/tenantId.
JsonParse(bytes) ==
    CASE bytes = B64["eyJpc3MiOiIqLmZsdWlnLmlvIiwiYXVkIjoiZmx1aWdfYXV0aGVudGljYXRvcl9yZXNvdXJjZSIsImV4cCI6MjAwLCJlbWFpbCI6InRvdHZzQHRvdHZzLmNvbS5iciIsInJvbGVzIjpbImFkbWluIl19"] ->
           [kind |-> "object",
            obj |-> JObj([iss |-> JStr(<< "*.fluig.io" >>),
                          aud |-> JStr(<< "fluig_authenticator_resource" >>),
                          exp |-> JNum(200),
                          email |-> JStr(<< "totvs@totvs.com.br" >>),
                          roles |-> JArr(<< "admin" >>)])]
      [] bytes = B64["eyJpc3MiOiIqLmZsdWlnLmlvIiwiYXVkIjoiZmx1aWdfYXV0aGVudGljYXRvcl9yZXNvdXJjZSIsImV4cCI6NTB9"] ->
           [kind |-> "object",
            obj |-> JObj([iss |-> JStr(<< "*.fluig.io" >>),
                          aud |-> JStr(<< "fluig_authenticator_resource" >>),
                          exp |-> JNum(50)])]
      [] bytes = B64["eyJpc3MiOiJodHRwczovL2FkbWluLnJhYy5kZXYudG90dnMuYXBwL3RvdHZzLnJhYyIsImV4cCI6MjAwLCJ0ZW5hbnRJZHBJZCI6ImJhc2UiLCJodHRwOi8vd3d3LnRuZi5jb20vaWRlbnRpdHkvY2xhaW1zL3RlbmFudElkIjoidDEifQ"] ->
           [kind |-> "object",
            obj |-> JObj([iss |-> JStr(<< "https://admin.rac.dev.totvs.app/totvs.rac" >>),
                          exp |-> JNum(200),
                          tenantIdpId |-> JStr(<< "base" >>),
                          racTenantId |-> JStr(<< "t1" >>)])]
      [] bytes = B64["eyJpc3MiOiJodHRwczovL2FjY291bnRzLmdvb2dsZS5jb20iLCJleHAiOjIwMH0"] ->
           [kind |-> "object",
            obj |-> JObj([iss |-> JStr(<< "https://accounts.google.com" >>),
                          exp |-> JNum(200)])]
      [] bytes = B64["eyJpc3MiOiJodHRwczovL3Vua25vd24uZXhhbXBsZS5jb20iLCJleHAiOjIwMH0"] ->
           [kind |-> "object",
            obj |-> JObj([iss |-> JStr(<< "https://unknown.example.com" >>),
                          exp |-> JNum(200)])]
      [] bytes = B64["eyJhdWQiOiJhYmMifQ"] ->
           [kind |-> "object", obj |-> JObj([aud |-> JStr(<< "abc" >>)])]
      [] bytes = B64["eyJpc3MiOjEyM30"] ->
           [kind |-> "object", obj |-> JObj([iss |-> JNum(123)])]
      [] bytes = B64["WzFd"] -> [kind |-> "other", obj |-> JObj(NoMembers)]
      [] bytes = B64["bnVsbA"] -> [kind |-> "null", obj |-> JObj(NoMembers)]
      [] bytes = B64["eyJpc3MiOiIqLmZsdWlnLmlvIiwiYXVkIjpbImEiLCJiIl0sImV4cCI6MjAwfQ"] ->
           [kind |-> "object",
            obj |-> JObj([iss |-> JStr(<< "*.fluig.io" >>),
                          aud |-> JArr(<< "a", "b" >>),
                          exp |-> JNum(200)])]
      [] bytes = B64["eyJpc3MiOiJodHRwczovL3Vua25vd24uZXhhbXBsZS5jb21cbiouZmx1aWcuaW8iLCJleHAiOjIwMH0"] ->
           [kind |-> "object",
            obj |-> JObj([iss |-> JStr(<< "https://unknown.example.com", "*.fluig.io" >>),
                          exp |-> JNum(200)])]
      [] bytes = B64["eyJpc3MiOiJodHRwczovL2FjY291bnRzLmdvb2dsZS5jb21cbiouZmx1aWcuaW8iLCJleHAiOjIwMH0"] ->
           [kind |-> "object",
            obj |-> JObj([iss |-> JStr(<< "https://accounts.google.com", "*.fluig.io" >>),
                          exp |-> JNum(200)])]
      [] bytes = B64["eyJpc3MiOiIiLCJleHAiOjIwMH0"] ->
           [kind |-> "object",
            obj |-> JObj([iss |-> JStr(EmptyString), exp |-> JNum(200)])]
      [] bytes = B64["eyJpc3MiOiIqLmZsdWlnLmlvIiwiZXhwIjoxMDB9"] ->
           [kind |-> "object",
            obj |-> JObj([iss |-> JStr(<< "*.fluig.io" >>), exp |-> JNum(100)])]
      [] bytes = B64["eyJpc3MiOiIqLmZsdWlnLmlvIiwiYXVkIjoiYTEiLCJleHAiOjIwMCwiZW1haWwiOiJlMSIsInJvbGVzIjpbImFkbWluIiwidXNlciJdLCJmdWxsTmFtZSI6IkpvaG4gRG9lIiwiY2xpZW50X2lkIjoiYzEiLCJ0ZW5hbnRJZHBJZCI6ImFiY2QiLCJjb21wYW55SWQiOiJjbzEifQ"] ->
           [kind |-> "object",
            obj |-> JObj([iss |-> JStr(<< "*.fluig.io" >>),
                          aud |-> JStr(<< "a1" >>),
                          exp |-> JNum(200),
                          email |-> JStr(<< "e1" >>),
                          roles |-> JArr(<< "admin", "user" >>),
                          fullName |-> JStr(<< "John Doe" >>),
                          client_id |-> JStr(<< "c1" >>),
                          tenantIdpId |-> JStr(<< "abcd" >>),
                          companyId |-> JStr(<< "co1" >>)])]
      [] bytes = B64["eyJpc3MiOiIqLmZsdWlnLmlvIiwiYXVkIjoiIiwiZXhwIjoyMDAsImVtYWlsIjoiIiwicm9sZXMiOltdLCJmdWxsTmFtZSI6IiIsImNsaWVudF9pZCI6IiIsInRlbmFudElkcElkIjoiIiwiY29tcGFueUlkIjoiIn0"] ->
           [kind |-> "object",
            obj |-> JObj([iss |-> JStr(<< "*.fluig.io" >>),
                          aud |-> JStr(EmptyString),
                          exp |-> JNum(200),
                          email |-> JStr(EmptyString),
                          roles |-> JArr(<<  >>),
                          fullName |-> JStr(EmptyString),
                          client_id |-> JStr(EmptyString),
                          tenantIdpId |-> JStr(EmptyString),
                          companyId |-> JStr(EmptyString)])]
      [] bytes = B64["eyJpc3MiOiIqLmZsdWlnLmlvIiwiZXhwIjoyMDAsInJvbGVzIjpbInVzZXIiXX0"] ->
           [kind |-> "object",
            obj |-> JObj([iss |-> JStr(<< "*.fluig.io" >>),
                          exp |-> JNum(200),
                          roles |-> JArr(<< "user" >>)])]
      [] bytes = B64["eyJpc3MiOiJodHRwczovL2FkbWluLnJhYy5kZXYudG90dnMuYXBwL3RvdHZzLnJhYyIsImV4cCI6MjAwLCJ0ZW5hbnRJZHBJZCI6ImJhc2UiLCJjb21wYW55SWQiOiJjbzEifQ"] ->
           [kind |-> "object",
            obj |-> JObj([iss |-> JStr(<< "https://admin.rac.dev.totvs.app/totvs.rac" >>),
                          exp |-> JNum(200),
                          tenantIdpId |-> JStr(<< "base" >>),
                          companyId |-> JStr(<< "co1" >>)])]
      [] bytes = B64["eyJpc3MiOiJodHRwczovL2FkbWluLnJhYy5kZXYudG90dnMuYXBwL3RvdHZzLnJhYyIsImV4cCI6MjAwLCJjb21wYW55SWQiOiJjbzEiLCJodHRwOi8vd3d3LnRuZi5jb20vaWRlbnRpdHkvY2xhaW1zL3RlbmFudElkIjoiIn0"] ->
           [kind |-> "object",
            obj |-> JObj([iss |-> JStr(<< "https://admin.rac.dev.totvs.app/totvs.rac" >>),
                          exp |-> JNum(200),
                          companyId |-> JStr(<< "co1" >>),
                          racTenantId |-> JStr(EmptyString)])]
      [] bytes = B64[SegHeader] -> [kind |-> "object", obj |-> JObj(NoMembers)]
      [] OTHER -> [kind |-> "invalid", obj |-> JObj(NoMembers)]


\* ----------------------------------------------------------------- issuers
\* An issuer is [type, JwksURL]; its pattern and its claims shape follow from
\* type, its verifier's keys from JwksURL.

J1 == "http://localhost:4444/jwks"
J2 == "http://localhost:5555/jwks"
J3 == "http://localhost:6666/jwks"

NewIdentity(jwksURL) == [type |-> "identity", JwksURL |-> jwksURL]
NewRac(jwksURL) == [type |-> "rac", JwksURL |-> jwksURL]
NewGoogle(jwksURL) == [type |-> "google", JwksURL |-> jwksURL]

\* The lines of the model's issuer strings that each IssuerRegex matches from
\* ^ to $: \*\.fluig\.io, https://.+\.rac\..*totvs\.app/totvs\.rac and
\* https://accounts\.google\.com.
PatternLines(type) ==
    CASE type = "identity" -> { "*.fluig.io" }
      [] type = "rac" -> { "https://admin.rac.dev.totvs.app/totvs.rac" }
      [] type = "google" -> { "https://accounts.google.com" }

\* IssuerRegex.MatchString(iss).  Every pattern is compiled with (?m), so ^ and
\* $ match at the start and end of each line; "." matches no line break, so a
\* match lies within one line.
MatchIssuer(i, iss) ==
    \E k \in 1..Len(iss) : iss[k] \in PatternLines(i.type)

\* The keys the remote key set at each JWKS endpoint publishes.
JwksKeys(url) ==
    IF url = J1 THEN { "K1" } ELSE { "K2" }

\* The endpoint at J3 answers every request with status 500 and a body that
\* is not UTF-8 text; the remote key set's error quotes the status and the
\* body.
JwksFails(url) == url = J3

GetKeysFailed ==
    << "failed to verify signature: ", "fetching keys ", "oidc: get keys failed: ",
       "500 Internal Server Error", SP, BadByte >>

\* The signature segments: SIGK1 (SIGK2) is a valid RS256 signature of the
\* token's header and payload under key K1 (K2); YWJj is no valid signature.
SigKey == [ SIGK1 |-> "K1", SIGK2 |-> "K2", YWJj |-> "none" ]
Sigs == DOMAIN SigKey

\* A verifier configuration that skips the expiry check.
VerifierConfigSkipExpiry ==
    [ InsecureSkipSignatureCheck |-> FALSE,
      SkipExpiryCheck |-> TRUE,
      SkipClientIDCheck |-> TRUE,
      SkipIssuerCheck |-> TRUE ]

\* The verifier configuration every New<Issuer> passes to oidc.NewVerifier.
VerifierConfig ==
    [ InsecureSkipSignatureCheck |-> FALSE,
      SkipExpiryCheck |-> FALSE,
      SkipClientIDCheck |-> TRUE,
      SkipIssuerCheck |-> TRUE ]

\* IssuerBase.Verify: Verifier.Verify(ctx, token) under VerifierConfig, in the
\* order oidc.IDTokenVerifier checks: payload, expiry, the compact form, then
\* the signature against the issuer's remote key set.  A token is expired
\* when its exp is before the clock (Expiry.Before(now)); a token without exp
\* has the zero time.  The result is the error (NilErr when the token is
\* accepted).
Verify(i, rawToken) ==
    LET parts == Split(rawToken, DOT)
        dec == IF Len(parts) < 2 THEN [ok |-> FALSE, bytes |-> ""]
               ELSE RawURLDecode(parts[2])
        doc == JsonParse(dec.bytes)
    IN  IF Len(parts) < 2 \/ ~dec.ok
          THEN << "oidc: malformed jwt: ", "malformed jwt payload" >>
        ELSE IF doc.kind \notin { "object", "null" }
                \/ doc.obj["iss"].t \notin { "string", "absent" }
                \/ doc.obj["exp"].t \notin { "number", "absent" }
          THEN << "oidc: failed to unmarshal claims" >>
        ELSE IF ~VerifierConfig.SkipExpiryCheck /\ Now > doc.obj["exp"].n
          THEN << "oidc: token is expired" >>
        ELSE IF VerifierConfig.InsecureSkipSignatureCheck
          THEN NilErr
        ELSE IF Len(parts) # 3
          THEN << "oidc: malformed jwt: ", "compact JWS format must have three parts" >>
        ELSE IF JwksFails(i.JwksURL)
          THEN GetKeysFailed
        ELSE IF Len(parts[3]) = 1 /\ parts[3][1] \in Sigs
                /\ SigKey[parts[3][1]] \in JwksKeys(i.JwksURL)
          THEN NilErr
        ELSE << "failed to verify signature: ", "failed to verify id token signature" >>

\* ------------------------------------------------------------------ claims

NilClaims == [dyn |-> "nil"]

\* A string field of ClaimsBase decoded from member v: the value, or the zero
\* value "" when the member is absent, null or of another type.
StringField(v) == IF v.t = "string" THEN v.s ELSE EmptyString

\* Roles []string: nil when absent.
RolesField(v) ==
    IF v.t = "array" THEN [isNil |-> FALSE, elems |-> v.a]
    ELSE [isNil |-> TRUE, elems |-> << >>]

StringKeys == { "iss", "aud", "email", "tenantIdpId", "companyId", "client_id",
                "fullName", "racTenantId" }

\* The keys json.Unmarshal decodes for an issuer's claims struct: ClaimsBase,
\* and for racClaims also the vendor key.
ClaimKeys(type) ==
    IF type = "rac" THEN JsonKeys ELSE JsonKeys \ { "racTenantId" }

TypeMismatch(k, v) ==
    /\ v.t # "absent"
    /\ \/ k \in StringKeys /\ v.t # "string"
       \/ k = "exp" /\ v.t # "number"
       \/ k = "roles" /\ v.t # "array"

\* IssuerBase.ClaimsBase: json.Unmarshal(payload, &claims).  A member of the
\* wrong type leaves its field zero and makes the call fail; the others are
\* still decoded.
ClaimsBase(type, payload) ==
    LET doc == JsonParse(payload)
        o == doc.obj
    IN  IF doc.kind = "invalid" THEN << "JWT: failed to unmarshal claims: ", "invalid character" >>
        ELSE IF doc.kind = "other"
          THEN << "JWT: failed to unmarshal claims: ", "json: cannot unmarshal" >>
        ELSE IF \E k \in ClaimKeys(type) : TypeMismatch(k, o[k])
          THEN << "JWT: failed to unmarshal claims: ", "json: cannot unmarshal" >>
        ELSE NilErr

\* <issuer>.Claims(payload): the claims struct (never nil: it is returned by
\* value) and ClaimsBase's error.
Claims(i, payload) ==
    LET o == JsonParse(payload).obj
    IN  [ claims |->
            [ dyn |-> i.type,
              Issuer |-> StringField(o["iss"]),
              Audience |-> StringField(o["aud"]),
              Email |-> StringField(o["email"]),
              FullName |-> StringField(o["fullName"]),
              ClientID |-> StringField(o["client_id"]),
              TenantIdpID |-> StringField(o["tenantIdpId"]),
              CompanyID |-> StringField(o["companyId"]),
              ExpiresAt |-> o["exp"].n,
              Roles |-> RolesField(o["roles"]),
              RacTenantID |-> IF i.type = "rac" THEN StringField(o["racTenantId"])
                              ELSE EmptyString ],
          err |-> ClaimsBase(i.type, payload) ]

\* The Go string "-".
Dash == << "-" >>

\* A ClaimRoles that returns the Roles field as it is, nil when absent.
ClaimRolesNil(c) == c.Roles

\* ClaimsBase.ClaimRoles: the roles, or an empty non-nil slice for nil.
ClaimRoles(c) ==
    IF c.Roles.isNil THEN [isNil |-> FALSE, elems |-> << >>] ELSE c.Roles

\* ClaimsBase.ClaimFullName
ClaimFullName(c) == IF c.FullName = EmptyString THEN Dash ELSE c.FullName

\* A ClaimEmail without the default.
ClaimEmailRaw(c) == c.Email

\* ClaimsBase.ClaimEmail
ClaimEmail(c) == IF c.Email = EmptyString THEN Dash ELSE c.Email

\* racClaims.ClaimTenantIdpID: the vendor claim's field, which shadows the
\* embedded ClaimsBase.TenantIdpID.
racClaimTenantIdpID(c) ==
    IF c.RacTenantID = EmptyString THEN Dash ELSE c.RacTenantID

\* A racClaims.ClaimCompanyID that reads the companyId field.
racClaimCompanyIDBase(c) ==
    IF c.CompanyID = EmptyString THEN Dash ELSE c.CompanyID

\* racClaims.ClaimCompanyID: the vendor claim's field too.
racClaimCompanyID(c) ==
    IF c.RacTenantID = EmptyString THEN Dash ELSE c.RacTenantID

\* Claims.ClaimTenantIdpID: racClaims' method for the claims of a RAC issuer,
\* ClaimsBase's for the others.
ClaimTenantIdpID(c) ==
    IF c.dyn = "rac" THEN racClaimTenantIdpID(c)
    ELSE IF c.TenantIdpID = EmptyString THEN Dash ELSE c.TenantIdpID

\* Claims.ClaimCompanyID, likewise.
ClaimCompanyID(c) ==
    IF c.dyn = "rac" THEN racClaimCompanyID(c)
    ELSE IF c.CompanyID = EmptyString THEN Dash ELSE c.CompanyID

\* ClaimsBase.ClaimClientID
ClaimClientID(c) == IF c.ClientID = EmptyString THEN Dash ELSE c.ClientID

\* ClaimsBase.ClaimAudience
ClaimAudience(c) == IF c.Audience = EmptyString THEN Dash ELSE c.Audience

\* ClaimsBase.ClaimIssuer
ClaimIssuer(c) == IF c.Issuer = EmptyString THEN Dash ELSE c.Issuer

\* ------------------------------------------------ AuthorizationBearerToken

\* A splitAuthHeader that splits on the first space only.
splitAuthHeaderFirstSpace(header) ==
    LET s == SplitFirst(header, SP)
    IN  IF Len(s) # 2
          THEN [tokenType |-> Empty, token |-> Empty,
                err |-> << "authorization header malformed (split size: ",
                           ToString(Len(s)), ")" >>]
        ELSE [tokenType |-> s[1], token |-> s[2], err |-> NilErr]

\* splitAuthHeader: strings.Split(header, " "), two parts or an error.
splitAuthHeader(header) ==
    LET s == Split(header, SP)
    IN  IF Len(s) # 2
          THEN [tokenType |-> Empty, token |-> Empty,
                err |-> << "authorization header malformed (split size: ",
                           ToString(Len(s)), ")" >>]
        ELSE [tokenType |-> s[1], token |-> s[2], err |-> NilErr]

\* extractTokenFromBearer
extractTokenFromBearer(authorization) ==
    LET h == splitAuthHeader(authorization)
    IN  IF h.err # NilErr THEN [token |-> Empty, err |-> h.err]
        ELSE IF h.tokenType # << "Bearer" >>
          THEN [token |-> Empty,
                err |-> << "invalid authorization header (accepts Bearer only | tokenType: " >>
                        \o h.tokenType \o << ")" >>]
        ELSE [token |-> h.token, err |-> NilErr]

\* extractTokenFromCookie: the jwt.token cookie's value, "" without an error
\* when the request has no such cookie (http.ErrNoCookie).
extractTokenFromCookie(r) ==
    IF ~r.hasCookie THEN [token |-> Empty, err |-> NilErr]
    ELSE [token |-> r.cookie, err |-> NilErr]

\* A parseJWT that insists on the three parts its message names.
parseJWTThreeParts(jwt) ==
    LET parts == Split(jwt, DOT)
    IN  IF Len(parts) < 3
          THEN [payload |-> "",
                err |-> << "malformed jwt, expected ", "3", " parts got ",
                           ToString(Len(parts)) >>]
        ELSE IF ~RawURLDecode(parts[2]).ok
          THEN [payload |-> "",
                err |-> << "malformed jwt payload: ", "illegal base64 data" >>]
        ELSE [payload |-> RawURLDecode(parts[2]).bytes, err |-> NilErr]

\* parseJWT: the decoded payload of a token with at least two parts.
parseJWT(jwt) ==
    LET parts == Split(jwt, DOT)
    IN  IF Len(parts) < 2
          THEN [payload |-> "",
                err |-> << "malformed jwt, expected ", "3", " parts got ",
                           ToString(Len(parts)) >>]
        ELSE IF ~RawURLDecode(parts[2]).ok
          THEN [payload |-> "",
                err |-> << "malformed jwt payload: ", "illegal base64 data" >>]
        ELSE [payload |-> RawURLDecode(parts[2]).bytes, err |-> NilErr]

\* An issuer peek that requires the iss member.
unmarshalIssuerRequired(payload) ==
    LET doc == JsonParse(payload)
    IN  IF doc.kind = "invalid"
          THEN [Issuer |-> EmptyString, err |-> << "invalid character" >>]
        ELSE IF doc.kind = "other" \/ doc.obj["iss"].t # "string"
          THEN [Issuer |-> EmptyString, err |-> << "json: cannot unmarshal" >>]
        ELSE [Issuer |-> StringField(doc.obj["iss"]), err |-> NilErr]

\* json.Unmarshal(payload, &i) for i struct{ Issuer string `json:"iss,omitempty"` }.
unmarshalIssuer(payload) ==
    LET doc == JsonParse(payload)
    IN  IF doc.kind = "invalid"
          THEN [Issuer |-> EmptyString, err |-> << "invalid character" >>]
        ELSE IF doc.kind = "other" \/ doc.obj["iss"].t \notin { "string", "absent" }
          THEN [Issuer |-> EmptyString, err |-> << "json: cannot unmarshal" >>]
        ELSE [Issuer |-> StringField(doc.obj["iss"]), err |-> NilErr]

\* findIssuer: the index of the first issuer of the registry that matches, 0
\* when none does.
RECURSIVE findIssuerFrom(_, _, _)
findIssuerFrom(issuers, issuerClaim, k) ==
    IF k > Len(issuers) THEN 0
    ELSE IF MatchIssuer(issuers[k], issuerClaim) THEN k
    ELSE findIssuerFrom(issuers, issuerClaim, k + 1)

\* A lookup that returns the last issuer that matches.
RECURSIVE findIssuerLastFrom(_, _, _)
findIssuerLastFrom(issuers, issuerClaim, k) ==
    IF k < 1 THEN 0
    ELSE IF MatchIssuer(issuers[k], issuerClaim) THEN k
    ELSE findIssuerLastFrom(issuers, issuerClaim, k - 1)

findIssuerLast(issuers, issuerClaim) ==
    findIssuerLastFrom(issuers, issuerClaim, Len(issuers))

\* A lookup that falls back to the first issuer when none matches.
findIssuerFallback(issuers, issuerClaim) ==
    LET k == findIssuerFrom(issuers, issuerClaim, 1)
    IN  IF k = 0 /\ Len(issuers) > 0 THEN 1 ELSE k

findIssuer(issuers, issuerClaim) == findIssuerFrom(issuers, issuerClaim, 1)


\* --------------------------------------------------------- response writer
\* http.ResponseWriter: the handler's header map (its Content-Type entry, ""
\* when unset), and what went on the wire: the status, the Content-Type sent
\* and the body.

NewResponseWriter ==
    [ contentType |-> "", wroteHeader |-> FALSE, status |-> 0,
      sentContentType |-> "", body |-> Empty, wroteBody |-> FALSE ]

\* w.Header().Set("Content-Type", v)
HeaderSet(w, v) == [w EXCEPT !.contentType = v]

\* w.WriteHeader(code): the header map as it is now is what will be sent;
\* later changes to the map do not reach the client.
WriteHeader(w, code) ==
    IF w.wroteHeader THEN w
    ELSE [w EXCEPT !.wroteHeader = TRUE, !.status = code,
                   !.sentContentType = w.contentType]

\* w.Write(data): an implicit WriteHeader(200), and on the first write a
\* Content-Type sniffed from the data when none was set in time (for these
\* bodies http.DetectContentType gives text/plain; charset=utf-8).
Write(w, data) ==
    LET w1 == WriteHeader(w, 200)
        w2 == IF ~w1.wroteBody /\ w1.sentContentType = ""
              THEN [w1 EXCEPT !.sentContentType = "text/plain; charset=utf-8"]
              ELSE w1
    IN  [w2 EXCEPT !.body = w2.body \o data, !.wroteBody = TRUE]

\* encoding/json's encoding of a string's bytes: a quote and a backslash are
\* escaped, and a byte that is not valid UTF-8 is written as \ufffd.
RECURSIVE JsonEscape(_)
JsonEscape(s) ==
    IF s = Empty THEN Empty
    ELSE (IF Head(s) \in { QUOTE, BACKSLASH } THEN << BACKSLASH, Head(s) >>
          ELSE IF Head(s) = BadByte THEN << BACKSLASH, "ufffd" >>
          ELSE << Head(s) >>) \o JsonEscape(Tail(s))

\* json.NewEncoder(w).Encode(map[string]string{"error": msg})
EncodeErrorBody(msg) ==
    << "{", QUOTE, "error", QUOTE, ":", QUOTE >> \o JsonEscape(msg)
        \o << QUOTE, "}", "\n" >>

\* fmt.Fprintf(w, "{\"error\": \"%v\"}", msg)
FprintfErrorBody(msg) ==
    << "{", QUOTE, "error", QUOTE, ": ", QUOTE >> \o msg \o << QUOTE, "}" >>

\* ------------------------------------------------------------------- state

VARIABLES
    Issuers,      \* the registry: AuthorizationBearerToken.Issuers
    pkg,          \* which version of the middleware serves: "auth",
                  \* "auth/middleware" or "auth/internal/issuer"
    req,          \* req[p]: the inbound request of call p
    pc,           \* pc[p]: the stage call p is at
    token,        \* locals of IsValidBearerToken ...
    payload,
    issuerClaim,
    issuer,       \* index in Issuers of the issuer validJWT found, 0 for none
    claims,       \* ... and what it returned
    err,
    calls,        \* calls[p]: the issuer methods invoked, in order
    w,            \* w[p]: the response writer
    ctx,          \* ctx[p]: the value under ISSUER_CLAIMS_KEY in the context
                  \* handed to the wrapped handler
    handler,      \* handler[p]: the wrapped handler's invocations
    stages,       \* stages[p]: the stages call p has executed, in order
    api,          \* a direct call sequence on the package's exported
                  \* functions: an issuer's Claims, the accessors,
                  \* GetIssuerClaimsFromContext and HasRole
    cancelled,    \* cancelled[p]: the request's context has been cancelled
    fetch,        \* fetch[p]: the fetch of the issuer's keys that Verify of
                  \* call p waits on: "idle", "pending" or "done"
    logmw,        \* a request on its way through the logging middleware
                  \* (log/middleware) and the handler it wraps
    metrics,      \* one metrics facade (implMetrics) and the goroutines
                  \* that call it
    global        \* the package-level logger (globalLogger) and the
                  \* goroutines that set and get it

vars == << Issuers, pkg, req, pc, token, payload, issuerClaim, issuer, claims,
           err, calls, w, ctx, handler, stages, api, cancelled, fetch, logmw,
           metrics, global >>

\* The state of the SDK's other packages, which no step of package auth
\* touches.
elsewhere == << logmw, metrics, global >>

Procs == DOMAIN pc

Packages == { "auth", "auth/middleware", "auth/internal/issuer" }

\* ------------------------------------------------------------------ inputs

\* A token of n >= 1 parts around payload segment seg signed sig.
RECURSIVE ExtraParts(_)
ExtraParts(n) == IF n <= 0 THEN Empty ELSE << DOT, "x" >> \o ExtraParts(n - 1)

TokenOf(seg, sig, n) ==
    IF n = 1 THEN << seg >>
    ELSE IF n = 2 THEN << SegHeader, DOT, seg >>
    ELSE << SegHeader, DOT, seg, DOT, sig >> \o ExtraParts(n - 3)

Tokens ==
    { TokenOf(seg, sig, n) : seg \in PayloadSegs, sig \in Sigs, n \in 1..MaxParts }
      \cup { << SegHeader, DOT >>, << "abc" >> }

SegFluig == "eyJpc3MiOiIqLmZsdWlnLmlvIiwiYXVkIjoiZmx1aWdfYXV0aGVudGljYXRvcl9yZXNvdXJjZSIsImV4cCI6MjAwLCJlbWFpbCI6InRvdHZzQHRvdHZzLmNvbS5iciIsInJvbGVzIjpbImFkbWluIl19"
SegUnknown == "eyJpc3MiOiJodHRwczovL3Vua25vd24uZXhhbXBsZS5jb20iLCJleHAiOjIwMH0"
SegNoIss == "eyJhdWQiOiJhYmMifQ"

GoodToken == TokenOf(SegFluig, "SIGK1", 3)

\* Authorization header values: Bearer with every token, and the malformed,
\* the non-Bearer and the empty ones.
Authorizations ==
    { << "Bearer", SP >> \o t : t \in Tokens }
      \cup { << scheme, SP >> \o t :
               scheme \in { "Basic", "bearer" }, t \in { << "YWJj" >>, GoodToken } }
      \cup { Empty,
             << "YWJj" >>,
             << "Bearer" >>,
             << "Bearer", SP >>,
             << SP, "YWJj" >>,
             << "Bearer", SP, SP >> \o GoodToken,
             << "Bearer", SP >> \o GoodToken \o << SP, "x" >>,
             << SP, "Bearer", SP >> \o GoodToken,
             << "Basic", SP, "YWJj", SP, "x" >>,
             << "Basic", QUOTE, SP, "YWJj" >>,
             << "Basic", BACKSLASH, SP, "YWJj" >> }

Cookies == { Empty, GoodToken, << "abc" >>, TokenOf(SegUnknown, "SIGK1", 3) }

\* The jwt.token cookie of a request: none, or one with a value.
CookieJars ==
    { [hasCookie |-> FALSE, cookie |-> Empty] }
      \cup { [hasCookie |-> TRUE, cookie |-> c] : c \in Cookies }

Requests ==
    { [hasAuthorization |-> TRUE, authorization |-> a,
       hasCookie |-> j.hasCookie, cookie |-> j.cookie] :
        a \in Authorizations, j \in CookieJars }
      \cup { [hasAuthorization |-> FALSE, authorization |-> Empty,
              hasCookie |-> j.hasCookie, cookie |-> j.cookie] : j \in CookieJars }

\* Registries: the issuers of the test suite and of the constructors, in both
\* orders, registries of two issuers with the same pattern and different key
\* sets, an issuer whose key set cannot be fetched, and the empty registry.
Registries ==
    { << NewGoogle(J1), NewIdentity(J1), NewRac(J1) >>,
      << NewIdentity(J1), NewRac(J1), NewGoogle(J1) >>,
      << NewIdentity(J2), NewIdentity(J1) >>,
      << NewIdentity(J1), NewIdentity(J2) >>,
      << NewRac(J2) >>,
      << NewIdentity(J3) >>,
      << >> }

\* r.Header.Get("Authorization"): "" for an absent header.
HeaderGet(r) == IF r.hasAuthorization THEN r.authorization ELSE Empty


\* ------------------------------------------------------------------- steps

NoCtx == [set |-> FALSE, val |-> NilClaims]

\* No direct call is made.
ApiIdle == [pc |-> "idle"]

\* No request is in the logging middleware.
LogMwIdle == [pc |-> "idle"]

\* (*T)(nil)
NilMetric == [id |-> 0, kind |-> "nil", instrument |-> FALSE]

\* newMetrics(meter, attrs): empty caches.
MetricsIdle ==
    [cache |-> << >>, next |-> 1, ncalls |-> 0, crashed |-> FALSE,
     g |-> << >>, rets |-> {}, uses |-> {}]

\* A goroutine outside SetGlobal and GetGlobal.
GlobalIdleProc == [pc |-> "idle", after |-> FALSE]

\* The facades callers install, a nil LoggerFacade, and nopLogger{}.
Facades == { "l1", "l2" }
NilFacade == "nil"
NopFacade == "nop"

\* atomic.Value before any Store.
NothingStored == [set |-> FALSE, lf |-> NilFacade]

\* var globalLogger atomic.Value: nothing stored.
GlobalIdle ==
    [package |-> "log", stored |-> NothingStored, ncalls |-> 0,
     g |-> << >>, setDone |-> FALSE, nilSet |-> FALSE, gets |-> {}]

ElsewhereIdle ==
    logmw = LogMwIdle /\ metrics = MetricsIdle /\ global = GlobalIdle

Init ==
    /\ Issuers \in Registries
    /\ pkg \in Packages
    /\ req \in [ { 1 } -> Requests ]
    /\ pc = [ p \in { 1 } |-> "extract" ]
    /\ token = [ p \in { 1 } |-> Empty ]
    /\ payload = [ p \in { 1 } |-> "" ]
    /\ issuerClaim = [ p \in { 1 } |-> EmptyString ]
    /\ issuer = [ p \in { 1 } |-> 0 ]
    /\ claims = [ p \in { 1 } |-> NilClaims ]
    /\ err = [ p \in { 1 } |-> NilErr ]
    /\ calls = [ p \in { 1 } |-> << >> ]
    /\ w = [ p \in { 1 } |-> NewResponseWriter ]
    /\ ctx = [ p \in { 1 } |-> NoCtx ]
    /\ handler = [ p \in { 1 } |-> [calls |-> 0, seen |-> NilClaims] ]
    /\ stages = [ p \in { 1 } |-> << >> ]
    /\ api = ApiIdle
    /\ ElsewhereIdle
    /\ cancelled = [ p \in { 1 } |-> FALSE ]
    /\ fetch = [ p \in { 1 } |-> "idle" ]

\* A failure that starts the call over.
FailRetry(p, e) ==
    /\ err' = [err EXCEPT ![p] = e]
    /\ claims' = [claims EXCEPT ![p] = NilClaims]
    /\ pc' = [pc EXCEPT ![p] = "extract"]

\* return nil, e
Fail(p, e) ==
    /\ err' = [err EXCEPT ![p] = e]
    /\ claims' = [claims EXCEPT ![p] = NilClaims]
    /\ pc' = [pc EXCEPT ![p] = "returned"]

\* A token source that turns to the cookie when the header gives no token.
tokenSourceCookieFallback(r) ==
    IF HeaderGet(r) # Empty /\ extractTokenFromBearer(HeaderGet(r)).err = NilErr
      THEN extractTokenFromBearer(HeaderGet(r))
    ELSE extractTokenFromCookie(r)

\* A token source that prefers the cookie.
tokenSourceCookieFirst(r) ==
    IF r.hasCookie /\ r.cookie # Empty THEN extractTokenFromCookie(r)
    ELSE IF HeaderGet(r) # Empty THEN extractTokenFromBearer(HeaderGet(r))
    ELSE extractTokenFromCookie(r)

\* The token IsValidBearerToken works on: from the Authorization header when
\* it is not "", else from the jwt.token cookie.
tokenSource(r) ==
    IF HeaderGet(r) # Empty THEN extractTokenFromBearer(HeaderGet(r))
    ELSE extractTokenFromCookie(r)

\* IsValidBearerToken, up to `if token != ""`.
ExtractToken(p) ==
    /\ pc[p] = "extract"
    /\ stages' = [stages EXCEPT ![p] = Append(@, "extract")]
    /\ pkg = "auth"
    /\ LET t == tokenSource(req[p])
       IN  IF t.err # NilErr
             THEN Fail(p, t.err) /\ UNCHANGED token
           ELSE IF t.token = Empty
             THEN Fail(p, << "authorization token not found" >>) /\ UNCHANGED token
           ELSE /\ token' = [token EXCEPT ![p] = t.token]
                /\ pc' = [pc EXCEPT ![p] = "parse"]
                /\ UNCHANGED << err, claims >>
    /\ UNCHANGED << elsewhere, api, cancelled, fetch, Issuers, pkg, req, payload, issuerClaim, issuer, calls, w, ctx, handler >>

\* ValidBearerToken of the two earlier versions: the header only, and a token
\* of "" is parsed like any other.
ExtractTokenHeaderOnly(p) ==
    /\ pc[p] = "extract"
    /\ stages' = [stages EXCEPT ![p] = Append(@, "extract")]
    /\ pkg # "auth"
    /\ IF HeaderGet(req[p]) = Empty
         THEN Fail(p, << "header authorization not found" >>) /\ UNCHANGED token
       ELSE LET t == extractTokenFromBearer(HeaderGet(req[p]))
            IN  IF t.err # NilErr
                  THEN Fail(p, t.err) /\ UNCHANGED token
                ELSE /\ token' = [token EXCEPT ![p] = t.token]
                     /\ pc' = [pc EXCEPT ![p] = "parse"]
                     /\ UNCHANGED << err, claims >>
    /\ UNCHANGED << elsewhere, api, cancelled, fetch, Issuers, pkg, req, payload, issuerClaim, issuer, calls, w, ctx, handler >>

\* payload, err := a.parseJWT(token)
ParseJWT(p) ==
    /\ pc[p] = "parse"
    /\ stages' = [stages EXCEPT ![p] = Append(@, "parse")]
    /\ LET r == parseJWT(token[p])
       IN  IF r.err # NilErr
             THEN Fail(p, << "malformed jwt: " >> \o r.err) /\ UNCHANGED payload
           ELSE /\ payload' = [payload EXCEPT ![p] = r.payload]
                /\ pc' = [pc EXCEPT ![p] = "peek"]
                /\ UNCHANGED << err, claims >>
    /\ UNCHANGED << elsewhere, api, cancelled, fetch, Issuers, pkg, req, token, issuerClaim, issuer, calls, w, ctx, handler >>

\* json.Unmarshal(payload, &i): the iss member alone.
PeekIssuer(p) ==
    /\ pc[p] = "peek"
    /\ stages' = [stages EXCEPT ![p] = Append(@, "peek")]
    /\ LET r == unmarshalIssuer(payload[p])
       IN  IF r.err # NilErr
             THEN Fail(p, << "oidc: failed to unmarshal claim issuer only: " >> \o r.err)
                  /\ UNCHANGED issuerClaim
           ELSE /\ issuerClaim' = [issuerClaim EXCEPT ![p] = r.Issuer]
                /\ pc' = [pc EXCEPT ![p] = "find"]
                /\ UNCHANGED << err, claims >>
    /\ UNCHANGED << elsewhere, api, cancelled, fetch, Issuers, pkg, req, token, payload, issuer, calls, w, ctx, handler >>

\* A lookup that moves the issuer it found to the front of the registry.
FindIssuerMoveToFront(p) ==
    /\ pc[p] = "find"
    /\ stages' = [stages EXCEPT ![p] = Append(@, "find")]
    /\ LET k == findIssuer(Issuers, issuerClaim[p])
       IN  IF k = 0
             THEN Fail(p, << "failed to verify JWT: ", "failed to find issuer: ",
                             "issuer not found" >>)
                  /\ UNCHANGED << issuer, Issuers >>
           ELSE /\ Issuers' = << Issuers[k] >> \o SubSeq(Issuers, 1, k - 1)
                                  \o SubSeq(Issuers, k + 1, Len(Issuers))
                /\ issuer' = [issuer EXCEPT ![p] = 1]
                /\ pc' = [pc EXCEPT ![p] = "verify"]
                /\ UNCHANGED << err, claims >>
    /\ UNCHANGED << elsewhere, api, cancelled, fetch, pkg, req, token, payload, issuerClaim, calls, w, ctx, handler >>

\* validJWT, its findIssuer half.
FindIssuer(p) ==
    /\ pc[p] = "find"
    /\ stages' = [stages EXCEPT ![p] = Append(@, "find")]
    /\ LET k == findIssuer(Issuers, issuerClaim[p])
       IN  IF k = 0
             THEN Fail(p, << "failed to verify JWT: ", "failed to find issuer: ",
                             "issuer not found" >>)
                  /\ UNCHANGED issuer
           ELSE /\ issuer' = [issuer EXCEPT ![p] = k]
                /\ pc' = [pc EXCEPT ![p] = "verify"]
                /\ UNCHANGED << err, claims >>
    /\ UNCHANGED << elsewhere, api, cancelled, fetch, Issuers, pkg, req, token, payload, issuerClaim, calls, w, ctx, handler >>

\* A validJWT that drops the error of issuer.Verify.
verifyOutcomeIgnored(verr) == NilErr

\* What validJWT does with the error of issuer.Verify: nil lets the call go
\* on, anything else is returned.
verifyOutcome(verr) == verr

\* A validJWT that goes on to the later issuers that match when the first
\* one rejects the token.
VerifyTokenTryLater(p) ==
    /\ pc[p] = "verify"
    /\ stages' = [stages EXCEPT ![p] = Append(@, "verify")]
    /\ LET accepting == { k \in issuer[p]..Len(Issuers) :
                            /\ MatchIssuer(Issuers[k], issuerClaim[p])
                            /\ Verify(Issuers[k], token[p]) = NilErr }
           k == IF accepting = {} THEN issuer[p]
                ELSE CHOOSE k \in accepting : \A j \in accepting : k <= j
           verr == Verify(Issuers[k], token[p])
       IN  /\ calls' = [calls EXCEPT ![p] =
                 Append(@, [op |-> "Verify", issuer |-> k,
                            arg |-> token[p], err |-> verr])]
           /\ issuer' = [issuer EXCEPT ![p] = k]
           /\ IF verr # NilErr
                THEN Fail(p, << "failed to verify JWT: " >> \o verr)
              ELSE /\ pc' = [pc EXCEPT ![p] = "claims"]
                   /\ UNCHANGED << err, claims >>
    /\ UNCHANGED << elsewhere, api, cancelled, fetch, Issuers, pkg, req, token, payload, issuerClaim, w, ctx, handler >>

\* validJWT, its issuer.Verify half.
VerifyToken(p) ==
    /\ pc[p] = "verify"
    /\ stages' = [stages EXCEPT ![p] = Append(@, "verify")]
    /\ LET verr == Verify(Issuers[issuer[p]], token[p])
           e == verifyOutcome(verr)
       IN  /\ calls' = [calls EXCEPT ![p] =
                 Append(@, [op |-> "Verify", issuer |-> issuer[p],
                            arg |-> token[p], err |-> verr])]
           /\ IF e # NilErr
                THEN Fail(p, << "failed to verify JWT: " >> \o e)
              ELSE /\ pc' = [pc EXCEPT ![p] = "claims"]
                   /\ UNCHANGED << err, claims >>
    /\ UNCHANGED << elsewhere, api, cancelled, fetch, Issuers, pkg, req, token, payload, issuerClaim, issuer, w, ctx, handler >>

\* The issuer kept in a field that all calls share: the one another call
\* found, when it has found one.
claimsIssuerShared(p) ==
    LET q == CHOOSE q \in Procs : \A r \in Procs : q >= r
    IN  IF issuer[q] # 0 THEN issuer[q] ELSE issuer[p]

\* The issuer whose Claims decodes the payload: the one validJWT returned.
claimsIssuer(p) == issuer[p]

\* return iss.Claims(payload)
DecodeClaims(p) ==
    /\ pc[p] = "claims"
    /\ stages' = [stages EXCEPT ![p] = Append(@, "claims")]
    /\ LET k == claimsIssuer(p)
           r == Claims(Issuers[k], payload[p])
       IN  /\ calls' = [calls EXCEPT ![p] =
                 Append(@, [op |-> "Claims", issuer |-> k,
                            arg |-> << payload[p] >>, err |-> r.err])]
           /\ claims' = [claims EXCEPT ![p] = r.claims]
           /\ err' = [err EXCEPT ![p] = r.err]
           /\ pc' = [pc EXCEPT ![p] = "returned"]
    /\ UNCHANGED << elsewhere, api, cancelled, fetch, Issuers, pkg, req, token, payload, issuerClaim, issuer, w, ctx, handler >>


\* -------------------------------------------------------------- middleware

\* A 401 response that tells the client no more than "unauthorized".
writeUnauthorizedGeneric(rw, e) ==
    Write(WriteHeader(HeaderSet(rw, "application/json; charset=utf-8"), 401),
          EncodeErrorBody(<< "unauthorized" >>))

\* The 401 response of package auth's middleware: Content-Type, then the
\* status, then the body through json.NewEncoder.
writeUnauthorized(rw, e) ==
    Write(WriteHeader(HeaderSet(rw, "application/json; charset=utf-8"), 401),
          EncodeErrorBody(e))

\* The 401 response of the two earlier middlewares: the status first, then
\* Content-Type, then the body through fmt.Fprintf.
writeUnauthorizedLegacy(rw, e) ==
    Write(HeaderSet(WriteHeader(rw, 401), "application/json; charset=utf-8"),
          FprintfErrorBody(e))

\* A middleware whose error branch does not end the request.
rejectsNever(e) == FALSE

\* Whether the middleware takes the error branch on what the validation
\* returned.
rejects(e) == e # NilErr

\* if err != nil { ...; return }
MiddlewareReject(p) ==
    /\ pc[p] = "returned"
    /\ stages' = [stages EXCEPT ![p] = Append(@, "reject")]
    /\ rejects(err[p])
    /\ w' = [w EXCEPT ![p] = IF pkg = "auth" THEN writeUnauthorized(@, err[p])
                             ELSE writeUnauthorizedLegacy(@, err[p])]
    /\ pc' = [pc EXCEPT ![p] = "done"]
    /\ UNCHANGED << elsewhere, api, cancelled, fetch, Issuers, pkg, req, token, payload, issuerClaim, issuer, claims,
                    err, calls, ctx, handler >>

\* A context that holds the claims under another key than the accessor reads.
WithClaimsOtherKey(c) == [set |-> FALSE, val |-> c]

\* context.WithValue(r.Context(), ISSUER_CLAIMS_KEY, claims)
WithClaims(c) == [set |-> TRUE, val |-> c]

\* The value is of a type that implements issuer.Claims, and is not nil: the
\* type assertion .(issuer.Claims) succeeds on it.
ImplementsClaims(v) == v.dyn \in { "identity", "rac", "google" }

\* GetIssuerClaimsFromContext of package auth: nil when the context holds no
\* Claims under the key.
GetIssuerClaimsFromContext(c) ==
    IF c.set /\ ImplementsClaims(c.val) THEN c.val ELSE NilClaims

\* ctx := context.WithValue(...); next.ServeHTTP(w, r.WithContext(ctx)).  The
\* wrapped handler reads the claims from its request's context.
MiddlewareNext(p) ==
    /\ pc[p] = "returned"
    /\ stages' = [stages EXCEPT ![p] = Append(@, "next")]
    /\ ~rejects(err[p])
    /\ ctx' = [ctx EXCEPT ![p] = WithClaims(claims[p])]
    /\ handler' = [handler EXCEPT ![p] =
            [calls |-> @.calls + 1, seen |-> GetIssuerClaimsFromContext(ctx'[p])]]
    /\ pc' = [pc EXCEPT ![p] = "done"]
    /\ UNCHANGED << elsewhere, api, cancelled, fetch, Issuers, pkg, req, token, payload, issuerClaim, issuer, claims,
                    err, calls, w >>

Next ==
    \/ \E p \in Procs : ExtractToken(p)
    \/ \E p \in Procs : ExtractTokenHeaderOnly(p)
    \/ \E p \in Procs : ParseJWT(p)
    \/ \E p \in Procs : PeekIssuer(p)
    \/ \E p \in Procs : FindIssuer(p)
    \/ \E p \in Procs : VerifyToken(p)
    \/ \E p \in Procs : DecodeClaims(p)
    \/ \E p \in Procs : MiddlewareReject(p)
    \/ \E p \in Procs : MiddlewareNext(p)

Spec == Init /\ [][Next]_vars

\* ------------------------------------------------------ concurrent calls
\* Two requests served at once by one AuthorizationBearerToken (net/http
\* runs each request's handler in its own goroutine); the steps of the two
\* calls interleave in every order, one call after the other included.

TokenRac == TokenOf("eyJpc3MiOiJodHRwczovL2FkbWluLnJhYy5kZXYudG90dnMuYXBwL3RvdHZzLnJhYyIsImV4cCI6MjAwLCJ0ZW5hbnRJZHBJZCI6ImJhc2UiLCJodHRwOi8vd3d3LnRuZi5jb20vaWRlbnRpdHkvY2xhaW1zL3RlbmFudElkIjoidDEifQ", "SIGK1", 3)
TokenGoogleFluig == TokenOf("eyJpc3MiOiJodHRwczovL2FjY291bnRzLmdvb2dsZS5jb21cbiouZmx1aWcuaW8iLCJleHAiOjIwMH0", "SIGK1", 3)
TokenExpired == TokenOf("eyJpc3MiOiIqLmZsdWlnLmlvIiwiYXVkIjoiZmx1aWdfYXV0aGVudGljYXRvcl9yZXNvdXJjZSIsImV4cCI6NTB9", "SIGK1", 3)
TokenAudArray == TokenOf("eyJpc3MiOiIqLmZsdWlnLmlvIiwiYXVkIjpbImEiLCJiIl0sImV4cCI6MjAwfQ", "SIGK1", 3)

BearerRequest(t) ==
    [hasAuthorization |-> TRUE, authorization |-> << "Bearer", SP >> \o t,
     hasCookie |-> FALSE, cookie |-> Empty]

\* The requests of the concurrent calls: valid tokens of two issuers, a token
\* two patterns match, an expired one, one with a foreign signature, one of
\* an unknown issuer, one whose claims do not decode, a malformed header, no
\* credentials, and a valid token in the cookie.
ConcurrentRequests ==
    { BearerRequest(t) :
        t \in { GoodToken, TokenRac, TokenGoogleFluig, TokenExpired, TokenAudArray,
                TokenOf(SegFluig, "SIGK2", 3), TokenOf(SegUnknown, "SIGK1", 3) } }
      \cup { [hasAuthorization |-> TRUE, authorization |-> << "Bearer" >>,
              hasCookie |-> FALSE, cookie |-> Empty],
             [hasAuthorization |-> FALSE, authorization |-> Empty,
              hasCookie |-> FALSE, cookie |-> Empty],
             [hasAuthorization |-> FALSE, authorization |-> Empty,
              hasCookie |-> TRUE, cookie |-> GoodToken] }

InitTwo ==
    /\ Issuers \in Registries
    /\ pkg \in Packages
    /\ req \in [ { 1, 2 } -> ConcurrentRequests ]
    /\ pc = [ p \in { 1, 2 } |-> "extract" ]
    /\ token = [ p \in { 1, 2 } |-> Empty ]
    /\ payload = [ p \in { 1, 2 } |-> "" ]
    /\ issuerClaim = [ p \in { 1, 2 } |-> EmptyString ]
    /\ issuer = [ p \in { 1, 2 } |-> 0 ]
    /\ claims = [ p \in { 1, 2 } |-> NilClaims ]
    /\ err = [ p \in { 1, 2 } |-> NilErr ]
    /\ calls = [ p \in { 1, 2 } |-> << >> ]
    /\ w = [ p \in { 1, 2 } |-> NewResponseWriter ]
    /\ ctx = [ p \in { 1, 2 } |-> NoCtx ]
    /\ handler = [ p \in { 1, 2 } |-> [calls |-> 0, seen |-> NilClaims] ]
    /\ stages = [ p \in { 1, 2 } |-> << >> ]
    /\ api = ApiIdle
    /\ ElsewhereIdle
    /\ cancelled = [ p \in { 1, 2 } |-> FALSE ]
    /\ fetch = [ p \in { 1, 2 } |-> "idle" ]

SpecTwo == InitTwo /\ [][Next]_vars

\* IsValidBearerToken (ValidBearerToken in the two earlier versions) as one
\* call running alone from start to end: what it returns for request r.
extractToken(r) ==
    IF pkg = "auth"
      THEN LET t == tokenSource(r)
           IN  IF t.err # NilErr THEN t
               ELSE IF t.token = Empty
                 THEN [token |-> Empty, err |-> << "authorization token not found" >>]
               ELSE t
    ELSE IF HeaderGet(r) = Empty
      THEN [token |-> Empty, err |-> << "header authorization not found" >>]
    ELSE extractTokenFromBearer(HeaderGet(r))

IsValidBearerToken(r) ==
    LET t == extractToken(r)
        j == parseJWT(t.token)
        u == unmarshalIssuer(j.payload)
        k == findIssuer(Issuers, u.Issuer)
        v == verifyOutcome(Verify(Issuers[k], t.token))
    IN  IF t.err # NilErr THEN [claims |-> NilClaims, err |-> t.err]
        ELSE IF j.err # NilErr
          THEN [claims |-> NilClaims, err |-> << "malformed jwt: " >> \o j.err]
        ELSE IF u.err # NilErr
          THEN [claims |-> NilClaims,
                err |-> << "oidc: failed to unmarshal claim issuer only: " >> \o u.err]
        ELSE IF k = 0
          THEN [claims |-> NilClaims,
                err |-> << "failed to verify JWT: ", "failed to find issuer: ",
                           "issuer not found" >>]
        ELSE IF v # NilErr
          THEN [claims |-> NilClaims, err |-> << "failed to verify JWT: " >> \o v]
        ELSE Claims(Issuers[k], j.payload)

\* ------------------------------------------------------ cancellation
\* Verify waits for the issuer's keys when the remote key set has to fetch
\* them, and the request's context may be cancelled at any time.  The steps
\* above are the case of keys at hand; here are the steps of a wait.

\* A Verify that is handed a context nobody cancels.
verifyContextTODO(p) == "todo"

\* The context IsValidBearerToken hands to issuer.Verify: the request's own
\* in package auth; the earlier versions' Verify takes none and uses the
\* context.TODO() kept in the issuer.
verifyContext(p) == IF pkg = "auth" THEN "request" ELSE "todo"

\* <-ctx.Done() of the context Verify was handed
ContextDone(p) == verifyContext(p) = "request" /\ cancelled[p]

\* The verifier reaches the signature check, for which it needs the keys,
\* when the payload, the expiry and the compact form are in order.
NeedsKeys(verr) ==
    verr \in { NilErr, GetKeysFailed,
               << "failed to verify signature: ", "failed to verify id token signature" >> }

\* The client goes away, or the server shuts the request down.
CancelRequest(p) ==
    /\ pc[p] # "done"
    /\ ~cancelled[p]
    /\ cancelled' = [cancelled EXCEPT ![p] = TRUE]
    /\ UNCHANGED << elsewhere, api, fetch, Issuers, pkg, req, pc, token, payload, issuerClaim,
                    issuer, claims, err, calls, w, ctx, handler, stages >>

\* issuer.Verify(ctx, rawToken) is called and waits for the keys.
VerifyWait(p) ==
    /\ pc[p] = "verify"
    /\ NeedsKeys(Verify(Issuers[issuer[p]], token[p]))
    /\ stages' = [stages EXCEPT ![p] = Append(@, "wait")]
    /\ fetch' = [fetch EXCEPT ![p] = "pending"]
    /\ pc' = [pc EXCEPT ![p] = "verifying"]
    /\ UNCHANGED << elsewhere, api, cancelled, Issuers, pkg, req, token, payload, issuerClaim,
                    issuer, claims, err, calls, w, ctx, handler >>

\* The keys arrive and Verify returns its verdict.
KeysFetched(p) ==
    /\ pc[p] = "verifying"
    /\ fetch[p] = "pending"
    /\ stages' = [stages EXCEPT ![p] = Append(@, "verify")]
    /\ fetch' = [fetch EXCEPT ![p] = "done"]
    /\ LET verr == Verify(Issuers[issuer[p]], token[p])
           e == verifyOutcome(verr)
       IN  /\ calls' = [calls EXCEPT ![p] =
                 Append(@, [op |-> "Verify", issuer |-> issuer[p],
                            arg |-> token[p], err |-> verr])]
           /\ IF e # NilErr
                THEN Fail(p, << "failed to verify JWT: " >> \o e)
              ELSE /\ pc' = [pc EXCEPT ![p] = "claims"]
                   /\ UNCHANGED << err, claims >>
    /\ UNCHANGED << elsewhere, api, cancelled, Issuers, pkg, req, token, payload, issuerClaim,
                    issuer, w, ctx, handler >>

\* The context Verify was handed is done while it waits: Verify returns the
\* context's error.
VerifyCancelled(p) ==
    /\ pc[p] = "verifying"
    /\ fetch[p] = "pending"
    /\ ContextDone(p)
    /\ stages' = [stages EXCEPT ![p] = Append(@, "verify")]
    /\ LET verr == << "failed to verify signature: ", "fetching keys ",
                      "context canceled" >>
           e == verifyOutcome(verr)
       IN  /\ calls' = [calls EXCEPT ![p] =
                 Append(@, [op |-> "Verify", issuer |-> issuer[p],
                            arg |-> token[p], err |-> verr])]
           /\ IF e # NilErr
                THEN Fail(p, << "failed to verify JWT: " >> \o e)
              ELSE /\ pc' = [pc EXCEPT ![p] = "claims"]
                   /\ UNCHANGED << err, claims >>
    /\ UNCHANGED << elsewhere, api, cancelled, fetch, Issuers, pkg, req, token, payload,
                    issuerClaim, issuer, w, ctx, handler >>

InitCancel ==
    /\ Issuers \in Registries
    /\ pkg \in Packages
    /\ req \in [ { 1 } -> ConcurrentRequests ]
    /\ pc = [ p \in { 1 } |-> "extract" ]
    /\ token = [ p \in { 1 } |-> Empty ]
    /\ payload = [ p \in { 1 } |-> "" ]
    /\ issuerClaim = [ p \in { 1 } |-> EmptyString ]
    /\ issuer = [ p \in { 1 } |-> 0 ]
    /\ claims = [ p \in { 1 } |-> NilClaims ]
    /\ err = [ p \in { 1 } |-> NilErr ]
    /\ calls = [ p \in { 1 } |-> << >> ]
    /\ w = [ p \in { 1 } |-> NewResponseWriter ]
    /\ ctx = [ p \in { 1 } |-> NoCtx ]
    /\ handler = [ p \in { 1 } |-> [calls |-> 0, seen |-> NilClaims] ]
    /\ stages = [ p \in { 1 } |-> << >> ]
    /\ api = ApiIdle
    /\ ElsewhereIdle
    /\ cancelled = [ p \in { 1 } |-> FALSE ]
    /\ fetch = [ p \in { 1 } |-> "idle" ]

NextCancel ==
    \/ \E p \in Procs : ExtractToken(p)
    \/ \E p \in Procs : ExtractTokenHeaderOnly(p)
    \/ \E p \in Procs : ParseJWT(p)
    \/ \E p \in Procs : PeekIssuer(p)
    \/ \E p \in Procs : FindIssuer(p)
    \/ \E p \in Procs : VerifyToken(p)
    \/ \E p \in Procs : VerifyWait(p)
    \/ \E p \in Procs : KeysFetched(p)
    \/ \E p \in Procs : VerifyCancelled(p)
    \/ \E p \in Procs : CancelRequest(p)
    \/ \E p \in Procs : DecodeClaims(p)
    \/ \E p \in Procs : MiddlewareReject(p)
    \/ \E p \in Procs : MiddlewareNext(p)

\* The goroutine serving a request takes its next step when it can: the Go
\* scheduler runs every runnable goroutine, and a goroutine blocked in a
\* select on ctx.Done() is made runnable by the cancellation.  Nothing makes
\* the JWKS endpoint answer, nor the client cancel.
FairCancel ==
    /\ WF_vars(ExtractToken(1))
    /\ WF_vars(ExtractTokenHeaderOnly(1))
    /\ WF_vars(ParseJWT(1))
    /\ WF_vars(PeekIssuer(1))
    /\ WF_vars(FindIssuer(1))
    /\ WF_vars(VerifyToken(1) \/ VerifyWait(1))
    /\ WF_vars(VerifyCancelled(1))
    /\ WF_vars(DecodeClaims(1))
    /\ WF_vars(MiddlewareReject(1))
    /\ WF_vars(MiddlewareNext(1))

SpecCancel == InitCancel /\ [][NextCancel]_vars /\ FairCancel

\* ------------------------------------------------------ the exported API
\* The functions a program calls directly, outside IsValidBearerToken: an
\* issuer's Claims on a payload, the accessors of the Claims, and
\* GetIssuerClaimsFromContext and HasRole on a context.

\* GetIssuerClaimsFromContext of the two earlier versions: a type assertion
\* without the ok result, which panics when the context holds no Claims under
\* the key.
GetIssuerClaimsFromContextUnchecked(c) ==
    IF c.set /\ ImplementsClaims(c.val) THEN [panic |-> FALSE, val |-> c.val]
    ELSE [panic |-> TRUE, val |-> NilClaims]

\* A HasRole that compares without regard to case.
Lower(r) == IF r = "Admin" THEN "admin" ELSE r

HasRoleEqualFold(c, role) ==
    LET cl == GetIssuerClaimsFromContext(c)
    IN  IF cl = NilClaims THEN FALSE
        ELSE \E k \in 1..Len(ClaimRoles(cl).elems) :
                 Lower(ClaimRoles(cl).elems[k]) = Lower(role)

\* HasRole: slices.Contains(claims.ClaimRoles(), role), false without claims.
HasRole(c, role) ==
    LET cl == GetIssuerClaimsFromContext(c)
    IN  IF cl = NilClaims THEN FALSE
        ELSE \E k \in 1..Len(ClaimRoles(cl).elems) : ClaimRoles(cl).elems[k] = role

\* The issuers the package constructs.
BuiltIns == { NewIdentity(J1), NewRac(J1), NewGoogle(J1) }

\* The payloads handed to Claims: every byte string of the table.
ApiPayloads == { B64[seg] : seg \in DOMAIN B64 }

\* What the context holds under ISSUER_CLAIMS_KEY: nothing, a value that is
\* not Claims, a nil Claims, or the Claims just decoded.
ContextKinds == { "none", "other", "nil", "claims" }

Roles == { "admin", "Admin", "user" }

NoRead ==
    [ Roles |-> [isNil |-> TRUE, elems |-> << >>], FullName |-> Empty,
      Email |-> Empty, TenantIdpID |-> Empty, CompanyID |-> Empty,
      ClientID |-> Empty, Audience |-> Empty, Issuer |-> Empty ]

ApiInit ==
    /\ Issuers = << >>
    /\ pkg = "auth"
    /\ req = << >>
    /\ pc = << >>
    /\ token = << >>
    /\ payload = << >>
    /\ issuerClaim = << >>
    /\ issuer = << >>
    /\ claims = << >>
    /\ err = << >>
    /\ calls = << >>
    /\ w = << >>
    /\ ctx = << >>
    /\ handler = << >>
    /\ stages = << >>
    /\ cancelled = << >>
    /\ fetch = << >>
    /\ ElsewhereIdle
    /\ api \in { [ pc |-> "start", version |-> v, i |-> i, payload |-> b,
                   ctxKind |-> k, role |-> r,
                   claims |-> NilClaims, err |-> NilErr, read |-> NoRead,
                   ctx |-> NoCtx,
                   got |-> [panic |-> FALSE, val |-> NilClaims],
                   has |-> FALSE ] :
                 v \in Packages, i \in BuiltIns, b \in ApiPayloads,
                 k \in ContextKinds, r \in Roles }

ApiUnchanged ==
    UNCHANGED << elsewhere, Issuers, pkg, req, pc, token, payload, issuerClaim, issuer,
                 claims, err, calls, w, ctx, handler, stages, cancelled, fetch >>

\* claims, err := i.Claims(payload)
ApiClaims ==
    /\ api.pc = "start"
    /\ LET r == Claims(api.i, api.payload)
       IN  api' = [api EXCEPT !.pc = "decoded", !.claims = r.claims, !.err = r.err]
    /\ ApiUnchanged

\* Every accessor of the decoded claims is called.
ApiRead ==
    /\ api.pc = "decoded"
    /\ api' = [api EXCEPT !.pc = "read",
                 !.read = [ Roles |-> ClaimRoles(api.claims),
                            FullName |-> ClaimFullName(api.claims),
                            Email |-> ClaimEmail(api.claims),
                            TenantIdpID |-> ClaimTenantIdpID(api.claims),
                            CompanyID |-> ClaimCompanyID(api.claims),
                            ClientID |-> ClaimClientID(api.claims),
                            Audience |-> ClaimAudience(api.claims),
                            Issuer |-> ClaimIssuer(api.claims) ]]
    /\ ApiUnchanged

\* The context of the kind chosen.
ApiContext(a) ==
    CASE a.ctxKind = "none" -> NoCtx
      [] a.ctxKind = "other" -> [set |-> TRUE, val |-> [dyn |-> "string"]]
      [] a.ctxKind = "nil" -> WithClaims(NilClaims)
      [] a.ctxKind = "claims" -> WithClaims(a.claims)

\* GetIssuerClaimsFromContext(ctx), of the version chosen.
ApiGetClaims ==
    /\ api.pc = "read"
    /\ LET c == ApiContext(api)
       IN  api' = [api EXCEPT !.pc = "got", !.ctx = c,
                     !.got = IF api.version = "auth"
                               THEN [panic |-> FALSE,
                                     val |-> GetIssuerClaimsFromContext(c)]
                             ELSE GetIssuerClaimsFromContextUnchecked(c)]
    /\ ApiUnchanged

\* HasRole(ctx, role), which package auth alone has.
ApiHasRole ==
    /\ api.pc = "got"
    /\ api.version = "auth"
    /\ api' = [api EXCEPT !.pc = "done", !.has = HasRole(api.ctx, api.role)]
    /\ ApiUnchanged

ApiNext ==
    \/ ApiClaims
    \/ ApiRead
    \/ ApiGetClaims
    \/ ApiHasRole

SpecApi == ApiInit /\ [][ApiNext]_vars



\* =============================================== the logging middleware
\* log/middleware: HTTPMiddlewareWithOptions(base, opts)(next) serving one
\* request.  A logger is its kind, its level and the fields it adds to every
\* entry; a context is the values under traceIDKey, loggedKey and loggerKey.

Levels == << "debug", "info", "warn", "error" >>

LevelRank(l) == CHOOSE k \in 1..Len(Levels) : Levels[k] = l

\* adapter.NewLog(w, level)
NewLog(level) == [kind |-> "zerolog", level |-> level, fields |-> << >>]

\* nopLogger{}
NopLogger == [kind |-> "nop", level |-> "error", fields |-> << >>]

\* context.Background()
Background ==
    [trace |-> "", logged |-> FALSE, hasLogger |-> FALSE, logger |-> NopLogger]

\* tr.TraceIDFromContext
TraceIDFromContext(c) == c.trace

\* tr.LoggedFromContext
LoggedFromContext(c) == c.logged

\* log.LoggerFromContext
LoggerFromContext(c) == [lf |-> c.logger, ok |-> c.hasLogger]

\* log.GetGlobal() of a process that configured no logger.
GetGlobalDefault == NopLogger

\* LoggerFacade.WithTraceFromContext: the trace_id field when the context has
\* a trace id; the no-op logger stays what it is.
WithTraceFromContext(l, c) ==
    IF l.kind = "nop" THEN l
    ELSE IF TraceIDFromContext(c) # ""
      THEN [l EXCEPT !.fields = Append(@, << "trace_id", TraceIDFromContext(c) >>)]
    ELSE l

\* LoggerFacade.WithFields
WithFields(l, fs) ==
    IF l.kind = "nop" THEN l ELSE [l EXCEPT !.fields = @ \o fs]

\* l.Info().Msg(msg): the entries written, none when the logger is the no-op
\* one or its level is above info.
InfoMsg(l, msg) ==
    IF l.kind = "zerolog" /\ LevelRank(l.level) <= LevelRank("info")
      THEN << [level |-> "info", fields |-> l.fields, message |-> msg] >>
    ELSE << >>

\* The value of field k of a log entry, "" when it has none.
RECURSIVE FieldFrom(_, _, _)
FieldFrom(fs, k, i) ==
    IF i = 0 THEN ""
    ELSE IF fs[i][1] = k THEN fs[i][2]
    ELSE FieldFrom(fs, k, i - 1)

Field(entry, k) == FieldFrom(entry.fields, k, Len(entry.fields))

\* A trace id taken from X-Correlation-Id before X-Request-Id.
requestTraceIDCorrelationFirst(reqId, corrId) ==
    IF corrId # "" THEN corrId ELSE reqId

\* tid := r.Header.Get(X-Request-Id); if tid == "" { tid =
\* r.Header.Get(X-Correlation-Id) }
requestTraceID(reqId, corrId) ==
    IF reqId # "" THEN reqId ELSE corrId

\* GetLoggerFromRequest(r) with a non-nil r.
GetLoggerFromRequest(c) ==
    IF LoggerFromContext(c).ok
      THEN [lf |-> LoggerFromContext(c).lf, logged |-> LoggedFromContext(c)]
    ELSE [lf |-> GetGlobalDefault, logged |-> FALSE]

\* The header values a request can carry, "" for an absent header.
RequestIds == { "", "trace-123" }
CorrelationIds == { "", "corr-456" }

\* What tr.GenerateTraceID can return.
GeneratedIds == { "0123456789abcdef0123456789abcdef", "fedcba9876543210fedcba9876543210" }

\* X-Request-Id of the response when the middleware is entered (kept in
\* respIn): "" for none, or what an outer handler has set.
ResponseIds == { "", "outer-789" }

Options ==
    [LogRequest : BOOLEAN, InjectLogger : BOOLEAN, AddTraceHeader : BOOLEAN]

BaseLoggers == { NewLog("debug"), NewLog("info"), NewLog("warn"), NopLogger }

NotSeen == [trace |-> "", lf |-> NopLogger, logged |-> FALSE]

LogMwUnchanged ==
    UNCHANGED << Issuers, pkg, req, pc, token, payload, issuerClaim, issuer,
                 claims, err, calls, w, ctx, handler, stages, api, cancelled,
                 fetch, metrics, global >>

LogMwInit ==
    /\ Issuers = << >>
    /\ pkg = "auth"
    /\ req = << >>
    /\ pc = << >>
    /\ token = << >>
    /\ payload = << >>
    /\ issuerClaim = << >>
    /\ issuer = << >>
    /\ claims = << >>
    /\ err = << >>
    /\ calls = << >>
    /\ w = << >>
    /\ ctx = << >>
    /\ handler = << >>
    /\ stages = << >>
    /\ cancelled = << >>
    /\ fetch = << >>
    /\ api = ApiIdle
    /\ metrics = MetricsIdle
    /\ global = GlobalIdle
    /\ logmw \in { [ pc |-> "trace", opts |-> o, base |-> b,
                     reqId |-> r, corrId |-> c, respIn |-> h, resp |-> h,
                     tid |-> "", ctx |-> Background, l2 |-> NopLogger,
                     out |-> << >>, served |-> 0, seen |-> NotSeen ] :
                   o \in Options, b \in BaseLoggers, r \in RequestIds,
                   c \in CorrelationIds, h \in ResponseIds }

\* tid from the request's headers or generated; ctx :=
\* tr.ContextWithTrace(r.Context(), tid)
LogMwTrace ==
    /\ logmw.pc = "trace"
    /\ \E g \in GeneratedIds :
          LET h == requestTraceID(logmw.reqId, logmw.corrId)
              tid == IF h = "" THEN g ELSE h
          IN  logmw' = [logmw EXCEPT !.pc = "logger", !.tid = tid,
                                     !.ctx.trace = tid]
    /\ LogMwUnchanged

\* l := base.WithTraceFromContext(ctx); l2 := l.WithFields(method, path)
LogMwLogger ==
    /\ logmw.pc = "logger"
    /\ logmw' = [logmw EXCEPT
            !.pc = "log",
            !.l2 = WithFields(WithTraceFromContext(logmw.base, logmw.ctx),
                              << << "method", "GET" >>, << "path", "/test" >> >>)]
    /\ LogMwUnchanged

\* if opts.LogRequest { l2.Info().Msg(...); ctx = tr.ContextWithLogged(ctx) }
LogMwLogRequest ==
    /\ logmw.pc = "log"
    /\ logmw' = IF logmw.opts.LogRequest
                  THEN [logmw EXCEPT
                          !.pc = "inject",
                          !.out = @ \o InfoMsg(logmw.l2, "http request received"),
                          !.ctx.logged = TRUE]
                ELSE [logmw EXCEPT !.pc = "inject"]
    /\ LogMwUnchanged

\* if opts.InjectLogger { ctx = log.ContextWithLogger(ctx, l2) }
LogMwInject ==
    /\ logmw.pc = "inject"
    /\ logmw' = IF logmw.opts.InjectLogger
                  THEN [logmw EXCEPT !.pc = "header", !.ctx.hasLogger = TRUE,
                                     !.ctx.logger = logmw.l2]
                ELSE [logmw EXCEPT !.pc = "header"]
    /\ LogMwUnchanged

\* if opts.AddTraceHeader { if w.Header().Get(X-Request-Id) == "" {
\* w.Header().Set(X-Request-Id, tid) } }
LogMwHeader ==
    /\ logmw.pc = "header"
    /\ logmw' = IF logmw.opts.AddTraceHeader /\ logmw.resp = ""
                  THEN [logmw EXCEPT !.pc = "serve", !.resp = logmw.tid]
                ELSE [logmw EXCEPT !.pc = "serve"]
    /\ LogMwUnchanged

\* next.ServeHTTP(w, r.WithContext(ctx)): the wrapped handler reads the trace
\* id of its request's context and calls GetLoggerFromRequest.
LogMwServe ==
    /\ logmw.pc = "serve"
    /\ LET got == GetLoggerFromRequest(logmw.ctx)
       IN  logmw' = [logmw EXCEPT
               !.pc = "done",
               !.served = @ + 1,
               !.seen = [trace |-> TraceIDFromContext(logmw.ctx),
                         lf |-> got.lf, logged |-> got.logged]]
    /\ LogMwUnchanged

LogMwNext ==
    \/ LogMwTrace
    \/ LogMwLogger
    \/ LogMwLogRequest
    \/ LogMwInject
    \/ LogMwHeader
    \/ LogMwServe

SpecLogMw == LogMwInit /\ [][LogMwNext]_vars


\* ===================================================== the metrics backend
\* metrics/internal/backend: one implMetrics facade whose GetOrCreateCounter,
\* GetOrCreateGauge and GetOrCreateHistogram are called from several
\* goroutines.  A metric is a pointer to a wrapper struct: its identity, its
\* kind, and whether its instrument field is set.

\* The calls made on the facade, by all goroutines together.
MaxCalls == 3

MetricProcs == { 1, 2 }

\* The arguments of the calls: kind of metric, name, metric type and class.
MetricInputs ==
    { [kind |-> "counter", name |-> << "reuse_test" >>, metricType |-> "tech", metricClass |-> "service"],
      [kind |-> "counter", name |-> << "reuse_test" >>, metricType |-> "bus", metricClass |-> "service"],
      [kind |-> "counter", name |-> << "errors" >>, metricType |-> "tech", metricClass |-> "service"],
      [kind |-> "gauge", name |-> << "reuse_test" >>, metricType |-> "tech", metricClass |-> "service"],
      [kind |-> "histogram", name |-> << "reuse_test" >>, metricType |-> "tech", metricClass |-> "service"] }

\* The methods of a metric of each kind.
MetricOps(kind) ==
    IF kind = "counter" THEN { "Add", "Inc" }
    ELSE IF kind = "gauge" THEN { "Set", "Add" }
    ELSE { "Record" }

\* buildKey: fmt.Sprintf("%s:%s:%s:%s", metricKind, name, metricType, metricClass)
buildKey(in) ==
    << in.kind, ":" >> \o in.name \o << ":", in.metricType, ":", in.metricClass >>

\* sync.Map.Load
Load(cache, key) ==
    IF key \in DOMAIN cache THEN [value |-> cache[key], ok |-> TRUE]
    ELSE [value |-> NilMetric, ok |-> FALSE]

\* A store that replaces the entry of the key.
LoadOrStoreOverwrite(cache, key, value) ==
    [ cache |-> [ k \in DOMAIN cache \cup { key } |->
                    IF k = key THEN value ELSE cache[k] ],
      actual |-> value, loaded |-> FALSE ]

\* sync.Map.LoadOrStore
LoadOrStore(cache, key, value) ==
    IF key \in DOMAIN cache
      THEN [cache |-> cache, actual |-> cache[key], loaded |-> TRUE]
    ELSE [ cache |-> [ k \in DOMAIN cache \cup { key } |->
                         IF k = key THEN value ELSE cache[k] ],
           actual |-> value, loaded |-> FALSE ]

\* The creator closures of GetOrCreateCounter, -Gauge and -Histogram: a wrapper
\* with its instrument when the meter made one, an empty wrapper and the
\* error when it did not.
creator(in, id, meterFails) ==
    IF meterFails
      THEN [m |-> [id |-> id, kind |-> in.kind, instrument |-> FALSE], err |-> TRUE]
    ELSE [m |-> [id |-> id, kind |-> in.kind, instrument |-> TRUE], err |-> FALSE]

\* A method call on a metric: Add, Inc, Set and Record read the receiver's
\* instrument field first, which panics on a nil receiver; a nil instrument
\* makes the call return at once.
Invoke(m) ==
    IF m = NilMetric THEN "panic"
    ELSE IF ~m.instrument THEN "noop"
    ELSE "recorded"

MetricIdleProc ==
    [pc |-> "idle", in |-> [kind |-> "none"], key |-> << >>,
     newMetric |-> NilMetric, failed |-> FALSE, ret |-> NilMetric]

MetricsUnchanged ==
    UNCHANGED << Issuers, pkg, req, pc, token, payload, issuerClaim, issuer,
                 claims, err, calls, w, ctx, handler, stages, api, cancelled,
                 fetch, logmw, global >>

MetricsInit ==
    /\ Issuers = << >>
    /\ pkg = "auth"
    /\ req = << >>
    /\ pc = << >>
    /\ token = << >>
    /\ payload = << >>
    /\ issuerClaim = << >>
    /\ issuer = << >>
    /\ claims = << >>
    /\ err = << >>
    /\ calls = << >>
    /\ w = << >>
    /\ ctx = << >>
    /\ handler = << >>
    /\ stages = << >>
    /\ cancelled = << >>
    /\ fetch = << >>
    /\ api = ApiIdle
    /\ logmw = LogMwIdle
    /\ global = GlobalIdle
    /\ metrics = [MetricsIdle EXCEPT !.g = [ p \in MetricProcs |-> MetricIdleProc ]]

\* A goroutine calls GetOrCreateCounter, -Gauge or -Histogram: key := buildKey(...)
MetricCall(p) ==
    /\ ~metrics.crashed
    /\ metrics.g[p].pc = "idle"
    /\ metrics.ncalls < MaxCalls
    /\ \E in \in MetricInputs :
          metrics' = [metrics EXCEPT
              !.ncalls = @ + 1,
              !.g[p] = [MetricIdleProc EXCEPT !.pc = "load", !.in = in,
                                              !.key = buildKey(in)]]
    /\ MetricsUnchanged

\* getOrCreate: if cached, ok := cache.Load(key); ok { return cached.(T) }
MetricLoad(p) ==
    /\ ~metrics.crashed
    /\ metrics.g[p].pc = "load"
    /\ LET l == Load(metrics.cache, metrics.g[p].key)
       IN  metrics' =
             IF l.ok
               THEN [metrics EXCEPT
                       !.g[p].pc = "use", !.g[p].ret = l.value,
                       !.rets = @ \cup { [key |-> metrics.g[p].key, m |-> l.value] }]
             ELSE [metrics EXCEPT !.g[p].pc = "create"]
    /\ MetricsUnchanged

\* getOrCreate: newMetric, err := creator(); if err != nil { var zero T;
\* return zero }
MetricCreate(p) ==
    /\ ~metrics.crashed
    /\ metrics.g[p].pc = "create"
    /\ \E meterFails \in BOOLEAN :
          LET c == creator(metrics.g[p].in, metrics.next, meterFails)
          IN  metrics' =
                IF c.err
                  THEN [metrics EXCEPT
                          !.g[p].pc = "use", !.g[p].failed = TRUE,
                          !.g[p].ret = NilMetric]
                ELSE [metrics EXCEPT
                        !.next = @ + 1,
                        !.g[p].pc = "store", !.g[p].newMetric = c.m]
    /\ MetricsUnchanged

\* getOrCreate: actual, loaded := cache.LoadOrStore(key, newMetric); if loaded
\* { return actual.(T) }; return newMetric
MetricStore(p) ==
    /\ ~metrics.crashed
    /\ metrics.g[p].pc = "store"
    /\ LET s == LoadOrStore(metrics.cache, metrics.g[p].key, metrics.g[p].newMetric)
           r == IF s.loaded THEN s.actual ELSE metrics.g[p].newMetric
       IN  metrics' = [metrics EXCEPT
               !.cache = s.cache,
               !.g[p].pc = "use", !.g[p].ret = r,
               !.rets = @ \cup { [key |-> metrics.g[p].key, m |-> r] }]
    /\ MetricsUnchanged

\* The caller uses what it got: Add or Inc on a counter, Set or Add on a
\* gauge, Record on a histogram.  A panic ends the program.
MetricUse(p) ==
    /\ ~metrics.crashed
    /\ metrics.g[p].pc = "use"
    /\ \E op \in MetricOps(metrics.g[p].in.kind) :
          LET o == Invoke(metrics.g[p].ret)
          IN  metrics' = [metrics EXCEPT
                  !.crashed = (o = "panic"),
                  !.g[p].pc = "idle",
                  !.uses = @ \cup { [kind |-> metrics.g[p].in.kind, op |-> op,
                                     failed |-> metrics.g[p].failed,
                                     outcome |-> o] }]
    /\ MetricsUnchanged

MetricsNext ==
    \/ \E p \in MetricProcs : MetricCall(p)
    \/ \E p \in MetricProcs : MetricLoad(p)
    \/ \E p \in MetricProcs : MetricCreate(p)
    \/ \E p \in MetricProcs : MetricStore(p)
    \/ \E p \in MetricProcs : MetricUse(p)

SpecMetrics == MetricsInit /\ [][MetricsNext]_vars


\* ========================================================= the global logger
\* log.SetGlobal / log.GetGlobal (and metrics.SetGlobal / metrics.GetGlobal,
\* the same code over storedMetrics) called from several goroutines.  The
\* atomic.Value holds nothing, or a pointer to a stored{lf}; lf is a facade,
\* the no-op fallback or nil.

\* The SetGlobal and GetGlobal calls made, by all goroutines together.
MaxGlobalCalls == 4

GlobalProcs == { 1, 2 }

\* GetGlobal: v := Load(); v != nil, and sl.lf != nil: the stored facade is
\* returned.
getGlobalLoaded(v) == v.set /\ v.lf # NilFacade

GlobalUnchanged ==
    UNCHANGED << Issuers, pkg, req, pc, token, payload, issuerClaim, issuer,
                 claims, err, calls, w, ctx, handler, stages, api, cancelled,
                 fetch, logmw, metrics >>

GlobalInit ==
    /\ Issuers = << >>
    /\ pkg = "auth"
    /\ req = << >>
    /\ pc = << >>
    /\ token = << >>
    /\ payload = << >>
    /\ issuerClaim = << >>
    /\ issuer = << >>
    /\ claims = << >>
    /\ err = << >>
    /\ calls = << >>
    /\ w = << >>
    /\ ctx = << >>
    /\ handler = << >>
    /\ stages = << >>
    /\ cancelled = << >>
    /\ fetch = << >>
    /\ api = ApiIdle
    /\ logmw = LogMwIdle
    /\ metrics = MetricsIdle
    /\ \E which \in { "log", "metrics" } :
          global = [GlobalIdle EXCEPT !.package = which,
                                      !.g = [ p \in GlobalProcs |-> GlobalIdleProc ]]

\* SetGlobal(l): globalLogger.Store(&storedLogger{lf: l})
SetGlobal(p) ==
    /\ global.g[p].pc = "idle"
    /\ global.ncalls < MaxGlobalCalls
    /\ \E l \in Facades \cup { NilFacade } :
          global' = [global EXCEPT
              !.ncalls = @ + 1,
              !.stored = [set |-> TRUE, lf |-> l],
              !.setDone = IF l = NilFacade THEN @ ELSE TRUE,
              !.nilSet = @ \/ l = NilFacade]
    /\ GlobalUnchanged

\* GetGlobal, its Load half: the stored facade is returned when there is
\* one.
GetGlobalLoad(p) ==
    /\ global.g[p].pc = "idle"
    /\ global.ncalls < MaxGlobalCalls
    /\ LET after == global.setDone
       IN  global' =
             IF getGlobalLoaded(global.stored)
               THEN [global EXCEPT
                       !.ncalls = @ + 1,
                       !.gets = @ \cup { [after |-> after, nilSet |-> global.nilSet,
                                          ret |-> global.stored.lf] }]
             ELSE [global EXCEPT
                     !.ncalls = @ + 1,
                     !.g[p] = [pc |-> "store", after |-> after]]
    /\ GlobalUnchanged

\* GetGlobal, its fallback half: def := &storedLogger{lf: nopLogger{}};
\* globalLogger.Store(def); return def.lf
GetGlobalStore(p) ==
    /\ global.g[p].pc = "store"
    /\ global' = [global EXCEPT
           !.stored = [set |-> TRUE, lf |-> NopFacade],
           !.g[p] = GlobalIdleProc,
           !.gets = @ \cup { [after |-> global.g[p].after, nilSet |-> global.nilSet,
                              ret |-> NopFacade] }]
    /\ GlobalUnchanged

GlobalNext ==
    \/ \E p \in GlobalProcs : SetGlobal(p)
    \/ \E p \in GlobalProcs : GetGlobalLoad(p)
    \/ \E p \in GlobalProcs : GetGlobalStore(p)

SpecGlobal == GlobalInit /\ [][GlobalNext]_vars


\* ================================================================== claims

Returned(p) == pc[p] \in { "returned", "done" }

Ran(p, stage) == Contains(stages[p], stage)

\* The error kinds, read off the message.
IsNoCredentials(e) == e = << "authorization token not found" >>
IsMalformedHeader(e) ==
    Len(e) = 3 /\ e[1] = "authorization header malformed (split size: "
IsUnsupportedScheme(e) ==
    Len(e) >= 2 /\ e[1] = "invalid authorization header (accepts Bearer only | tokenType: "
IsMalformedToken(e) ==
    Len(e) = 5 /\ e[1] = "malformed jwt: " /\ e[2] = "malformed jwt, expected "
IsMalformedPayload(e) ==
    Len(e) >= 2 /\ e[1] = "malformed jwt: " /\ e[2] = "malformed jwt payload: "
IsIssuerPeek(e) ==
    Len(e) >= 1 /\ e[1] = "oidc: failed to unmarshal claim issuer only: "
IsIssuerNotFound(e) ==
    e = << "failed to verify JWT: ", "failed to find issuer: ", "issuer not found" >>
IsTokenVerification(e) ==
    Len(e) >= 2 /\ e[1] = "failed to verify JWT: " /\ e[2] # "failed to find issuer: "

VerifyCalls(p) == { i \in 1..Len(calls[p]) : calls[p][i].op = "Verify" }
ClaimsCalls(p) == { i \in 1..Len(calls[p]) : calls[p][i].op = "Claims" }

\* The request's token and its iss, read from the request itself: the token
\* after "Bearer " or of the cookie, its second part decoded, the iss member.
RequestToken(r) ==
    IF HeaderGet(r) # Empty
      THEN LET i == Index(HeaderGet(r), SP)
           IN  IF i = 0 THEN Empty ELSE SubSeq(HeaderGet(r), i + 1, Len(HeaderGet(r)))
    ELSE IF pkg = "auth" /\ r.hasCookie THEN r.cookie
    ELSE Empty

RequestPayload(r) ==
    LET parts == Split(RequestToken(r), DOT)
    IN  IF Len(parts) >= 2 THEN JsonParse(RawURLDecode(parts[2]).bytes)
        ELSE JsonParse("")

\* The request carries a token whose payload is JSON giving iss as a string,
\* or giving no iss.
HasIss(r) ==
    /\ RequestPayload(r).kind \in { "object", "null" }
    /\ RequestPayload(r).obj["iss"].t \in { "string", "absent" }

RequestIss(r) == StringField(RequestPayload(r).obj["iss"])

NoIssuerMatches(iss) == \A k \in 1..Len(Issuers) : ~MatchIssuer(Issuers[k], iss)

\* C1: a request whose token's iss matches no registered issuer's pattern
\* never has any issuer's Verify called, and its validation, once it has gone
\* through the issuer lookup, returns the issuer-not-found error and nil
\* Claims, whether or not the signature verifies against a registered key set.
C1_UnknownIssuerRejected ==
    \A p \in Procs :
        (HasIss(req[p]) /\ NoIssuerMatches(RequestIss(req[p]))) =>
            /\ VerifyCalls(p) = {}
            /\ ~Ran(p, "verify")
            /\ (Returned(p) /\ Ran(p, "find")) =>
                   (IsIssuerNotFound(err[p]) /\ claims[p] = NilClaims)
            /\ Returned(p) => err[p] # NilErr

\* C1 witness: the lookup has rejected an unknown iss on a token that an
\* issuer of the registry would verify.
C1_Witness ==
    \E p \in Procs :
        /\ Returned(p) /\ Ran(p, "find")
        /\ issuerClaim[p] = << "https://unknown.example.com" >>
        /\ IsIssuerNotFound(err[p])
        /\ \E k \in 1..Len(Issuers) : Verify(Issuers[k], token[p]) = NilErr

\* C2: validation returns a nil error only if Verify of the matched issuer was
\* called with this request's raw token and accepted it; a failed Verify makes
\* validation return the token-verification error that wraps Verify's error,
\* with nil Claims.
C2_NilErrorOnlyAfterVerify ==
    \A p \in Procs :
        /\ (Returned(p) /\ err[p] = NilErr) =>
              \E i \in VerifyCalls(p) :
                  /\ calls[p][i].err = NilErr
                  /\ calls[p][i].arg = RequestToken(req[p])
                  /\ calls[p][i].issuer = findIssuerFrom(Issuers, RequestIss(req[p]), 1)
                  /\ Verify(Issuers[calls[p][i].issuer], RequestToken(req[p])) = NilErr
        /\ \A i \in VerifyCalls(p) :
              calls[p][i].err # NilErr =>
                  /\ Returned(p)
                  /\ IsTokenVerification(err[p])
                  /\ err[p] = << "failed to verify JWT: " >> \o calls[p][i].err
                  /\ claims[p] = NilClaims
                  /\ ~Ran(p, "claims")

\* C2 witness: Verify has rejected a token (a bad signature) and validation
\* has returned.
C2_Witness ==
    \E p \in Procs :
        /\ Returned(p)
        /\ \E i \in VerifyCalls(p) :
              calls[p][i].err = << "failed to verify signature: ",
                                   "failed to verify id token signature" >>
        /\ IsTokenVerification(err[p])

\* C2 witness, the accepting side: validation has returned nil after Verify
\* accepted the token.
C2_WitnessAccepted ==
    \E p \in Procs : Returned(p) /\ err[p] = NilErr /\ VerifyCalls(p) # {}

\* C3: the middleware invokes the wrapped handler exactly once for a request
\* whose validation returned no error, and never for one whose validation
\* returned an error (nor before validation has returned).
C3_HandlerOnceIffValid ==
    \A p \in Procs :
        /\ handler[p].calls \in { 0, 1 }
        /\ handler[p].calls = 1 => (pc[p] = "done" /\ err[p] = NilErr)
        /\ (pc[p] = "done" /\ err[p] = NilErr) => handler[p].calls = 1
        /\ (pc[p] = "done" /\ err[p] # NilErr) => handler[p].calls = 0

\* C3 witness: both outcomes of a served request.
C3_Witness ==
    \E p \in Procs : pc[p] = "done" /\ err[p] = NilErr /\ handler[p].calls = 1

C3_WitnessRejected ==
    \E p \in Procs : pc[p] = "done" /\ err[p] # NilErr /\ w[p].status = 401

\* A client's reading of a response body as JSON: the body must be an object
\* with the one member "error", a string; error is that string, unescaped.
\* Inside a JSON string a backslash must be followed by a quote, a backslash
\* or ufffd (of the escapes, the only ones these bodies can hold), and a bare
\* quote ends the string.
RECURSIVE JsonStringEnd(_, _)
JsonStringEnd(s, i) ==
    IF i > Len(s) THEN 0
    ELSE IF s[i] = QUOTE THEN i
    ELSE IF s[i] = BACKSLASH
      THEN IF i + 1 <= Len(s) /\ s[i + 1] \in { QUOTE, BACKSLASH, "ufffd" }
             THEN JsonStringEnd(s, i + 2)
           ELSE 0
    ELSE JsonStringEnd(s, i + 1)

RECURSIVE JsonUnescape(_)
JsonUnescape(s) ==
    IF s = Empty THEN Empty
    ELSE IF Head(s) = BACKSLASH /\ Len(s) >= 2
      THEN << IF s[2] = "ufffd" THEN Replacement ELSE s[2] >>
               \o JsonUnescape(SubSeq(s, 3, Len(s)))
    ELSE << Head(s) >> \o JsonUnescape(Tail(s))

ParseErrorBody(body) ==
    LET startOk == /\ Len(body) >= 6
                   /\ SubSeq(body, 1, 4) = << "{", QUOTE, "error", QUOTE >>
                   /\ body[5] \in { ":", ": " }
                   /\ body[6] = QUOTE
        e == IF startOk THEN JsonStringEnd(body, 7) ELSE 0
        rest == IF e = 0 THEN Empty ELSE SubSeq(body, e + 1, Len(body))
    IN  IF e # 0 /\ rest \in { << "}" >>, << "}", "\n" >> }
          THEN [ok |-> TRUE, error |-> JsonUnescape(SubSeq(body, 7, e - 1))]
        ELSE [ok |-> FALSE, error |-> Empty]

JsonContentType == "application/json; charset=utf-8"

\* C4: when validation fails, the response delivered has status 401, the
\* Content-Type application/json; charset=utf-8 on the wire, and a body that
\* parses as a JSON object with a string member error, whatever the message.
C4_UnauthorizedResponseShape ==
    \A p \in Procs :
        (pc[p] = "done" /\ err[p] # NilErr) =>
            /\ w[p].status = 401
            /\ w[p].sentContentType = JsonContentType
            /\ ParseErrorBody(w[p].body).ok

\* C4, for package auth's middleware alone (the version that sets the header
\* first and encodes the body with encoding/json): there the shape holds, and
\* the error member is a string.
C4_AuthPackageResponseShape ==
    \A p \in Procs :
        (pkg = "auth" /\ pc[p] = "done" /\ err[p] # NilErr) =>
            /\ w[p].status = 401
            /\ w[p].sentContentType = JsonContentType
            /\ ParseErrorBody(w[p].body).ok

\* C4: the status alone is 401 in every version.
C4_StatusUnauthorized ==
    \A p \in Procs : (pc[p] = "done" /\ err[p] # NilErr) => w[p].status = 401

\* C5: when the wrapped handler runs, GetIssuerClaimsFromContext on its
\* context gives the non-nil Claims validation returned, which are the matched
\* issuer's Claims of the payload; the context of a request whose validation
\* failed never holds claims.
C5_HandlerSeesReturnedClaims ==
    \A p \in Procs :
        /\ handler[p].calls > 0 =>
              /\ handler[p].seen = claims[p]
              /\ claims[p] # NilClaims
              /\ claims[p] = Claims(Issuers[issuer[p]], payload[p]).claims
              /\ GetIssuerClaimsFromContext(ctx[p]) = claims[p]
        /\ ctx[p].set => (err[p] = NilErr /\ Returned(p))
        /\ (Returned(p) /\ err[p] # NilErr) => (~ctx[p].set /\ handler[p].seen = NilClaims)

\* C5 witness: the handler has run and has read claims with the token's
\* audience from its context.
C5_Witness ==
    \E p \in Procs :
        /\ handler[p].calls = 1
        /\ handler[p].seen # NilClaims
        /\ handler[p].seen.Audience = << "fluig_authenticator_resource" >>

\* C6: IsValidBearerToken (package auth) takes the token from the
\* Authorization header when the header is present and not "", and then never
\* from the cookie; otherwise, whether the header is absent or "", from the
\* jwt.token cookie; with neither it returns the no-credentials error and nil
\* Claims.
C6_TokenSource ==
    \A p \in Procs :
        (pkg = "auth" /\ Ran(p, "extract")) =>
            LET r == req[p]
                h == HeaderGet(r)
            IN  /\ (r.hasAuthorization /\ r.authorization # Empty) =>
                      /\ token[p] # Empty => h = << "Bearer", SP >> \o token[p]
                      /\ (h = << "Bearer", SP >> \o RequestToken(r)
                            /\ RequestToken(r) # Empty
                            /\ ~Contains(RequestToken(r), SP))
                           => token[p] = RequestToken(r)
                /\ (~r.hasAuthorization \/ r.authorization = Empty) =>
                      /\ (r.hasCookie /\ r.cookie # Empty) => token[p] = r.cookie
                      /\ ~r.hasCookie =>
                            /\ Returned(p)
                            /\ IsNoCredentials(err[p])
                            /\ claims[p] = NilClaims
                            /\ stages[p] \in { << "extract" >>, << "extract", "reject" >> }

\* C6 witness: a request with an empty Authorization header and a jwt.token
\* cookie has been validated from its cookie.
C6_Witness ==
    \E p \in Procs :
        /\ pkg = "auth"
        /\ req[p].hasAuthorization /\ req[p].authorization = Empty
        /\ req[p].hasCookie
        /\ Returned(p) /\ err[p] = NilErr
        /\ token[p] = req[p].cookie

\* C6 witness, the header side: a request with both a Bearer header and a
\* different cookie has been validated from its header.
C6_WitnessHeader ==
    \E p \in Procs :
        /\ pkg = "auth"
        /\ req[p].hasCookie /\ req[p].cookie # Empty
        /\ Ran(p, "extract") /\ token[p] # Empty /\ token[p] # req[p].cookie

\* C6 witness, no credentials.
C6_WitnessNone ==
    \E p \in Procs :
        /\ pkg = "auth" /\ ~req[p].hasAuthorization /\ ~req[p].hasCookie
        /\ Returned(p) /\ IsNoCredentials(err[p])

\* The header stage's verdict on a non-empty header whose split is parts.
HeaderVerdict(p, parts) ==
    /\ Len(parts) # 2 =>
          /\ Returned(p)
          /\ err[p] = << "authorization header malformed (split size: ",
                         ToString(Len(parts)), ")" >>
    /\ (Len(parts) = 2 /\ parts[1] # << "Bearer" >>) =>
          /\ Returned(p)
          /\ err[p] = << "invalid authorization header (accepts Bearer only | tokenType: " >>
                        \o parts[1] \o << ")" >>
    /\ (Len(parts) = 2 /\ parts[1] = << "Bearer" >>) =>
          /\ ~IsMalformedHeader(err[p])
          /\ ~IsUnsupportedScheme(err[p])
          /\ token[p] = parts[2]

\* C7 as stated: a non-empty Authorization header is split on its first space;
\* anything but two parts is the malformed-header error, two parts with a
\* scheme other than "Bearer" the unsupported-scheme error naming the scheme.
C7_SplitOnFirstSpace ==
    \A p \in Procs :
        (Ran(p, "extract") /\ HeaderGet(req[p]) # Empty) =>
            HeaderVerdict(p, SplitFirst(HeaderGet(req[p]), SP))

\* C7 amended: a non-empty Authorization header is split on every space;
\* anything but two parts (no space, or more than one) is the malformed-header
\* error reporting the number of parts, two parts with a scheme other than
\* exactly "Bearer" the unsupported-scheme error naming the scheme, and only
\* "Bearer" with one space passes, its second part being the token.
C7_SplitOnEverySpace ==
    \A p \in Procs :
        (Ran(p, "extract") /\ HeaderGet(req[p]) # Empty) =>
            HeaderVerdict(p, Split(HeaderGet(req[p]), SP))

\* C7 witness: "Basic YWJj" has been rejected naming Basic, ...
C7_Witness ==
    \E p \in Procs :
        /\ req[p].authorization = << "Basic", SP, "YWJj" >>
        /\ Returned(p)
        /\ IsUnsupportedScheme(err[p])
        /\ err[p][2] = "Basic"

\* ... and a header of three parts has been rejected as malformed.
C7_WitnessThreeParts ==
    \E p \in Procs :
        /\ Len(Split(HeaderGet(req[p]), SP)) = 3
        /\ Returned(p)
        /\ IsMalformedHeader(err[p])

\* The malformed-token error for a token of n parts, as IsValidBearerToken
\* returns it, the expectation its message states being expected.
MalformedTokenError(expected, n) ==
    << "malformed jwt: ", "malformed jwt, expected ", expected, " parts got ", ToString(n) >>

\* What parseJWT's part count check does to a token of n parts, the message
\* stating expected.
PartsVerdict(p, n, expected) ==
    /\ n < 2 =>
          /\ Returned(p)
          /\ err[p] = MalformedTokenError(expected, n)
          /\ claims[p] = NilClaims
    /\ n >= 2 => ~IsMalformedToken(err[p])

\* C8 as stated: a token of fewer than 2 parts is rejected with the
\* malformed-token error, whose message says that (at least) 2 parts were
\* expected and how many were found; a token of 2 or more parts passes.
C8_MessageSaysTwo ==
    \A p \in Procs :
        Ran(p, "parse") => PartsVerdict(p, Len(Split(token[p], DOT)), "2")

\* C8 amended: a token of fewer than 2 parts is rejected with the
\* malformed-token error, whose message is "malformed jwt, expected 3 parts
\* got N", N being the number of parts found (1 for a token with no dot); a
\* token of 2 or more parts passes the check.
C8_MessageSaysThree ==
    \A p \in Procs :
        Ran(p, "parse") => PartsVerdict(p, Len(Split(token[p], DOT)), "3")

\* C8 witness: "Bearer abc" has been rejected, 1 part found, ...
C8_Witness ==
    \E p \in Procs :
        /\ req[p].authorization = << "Bearer", SP, "abc" >>
        /\ Returned(p)
        /\ err[p] = MalformedTokenError("3", 1)

\* ... and a token of exactly 2 parts has passed the check.
C8_WitnessTwoParts ==
    \E p \in Procs :
        /\ Ran(p, "parse") /\ Ran(p, "peek")
        /\ Len(Split(token[p], DOT)) = 2

\* The decoded payload is a JSON object with no iss member.
NoIssMember(bytes) ==
    JsonParse(bytes).kind = "object" /\ JsonParse(bytes).obj["iss"].t = "absent"

\* C9: a token whose decoded payload is a JSON object without iss passes the
\* issuer peek with iss = "", which no registered issuer matches, and
\* validation returns the issuer-not-found error.
C9_AbsentIssIsEmpty ==
    \A p \in Procs :
        (Ran(p, "peek") /\ NoIssMember(payload[p])) =>
            /\ ~IsIssuerPeek(err[p])
            /\ issuerClaim[p] = EmptyString
            /\ NoIssuerMatches(issuerClaim[p])
            /\ pc[p] # "returned" => pc[p] \in { "find", "done" }
            /\ Returned(p) =>
                  /\ IsIssuerNotFound(err[p])
                  /\ claims[p] = NilClaims
                  /\ VerifyCalls(p) = {}

\* C9 witness: the token of the test suite, whose payload is {"aud":"abc"},
\* has been rejected by the issuer lookup.
C9_Witness ==
    \E p \in Procs :
        /\ token[p] = << SegHeader, DOT, SegNoIss, DOT, "YWJj" >>
        /\ Returned(p)
        /\ IsIssuerNotFound(err[p])
        /\ Len(Issuers) > 0

\* C10: the issuer validation settles on is the first of the registry, in
\* registration order, whose MatchIssuer(iss) is true; Verify is called on
\* that issuer and on no other, and the Claims returned on success are that
\* same issuer's Claims of the decoded payload.
C10_FirstMatchVerifiesAndDecodes ==
    \A p \in Procs :
        /\ issuer[p] # 0 =>
              /\ MatchIssuer(Issuers[issuer[p]], issuerClaim[p])
              /\ \A j \in 1..(issuer[p] - 1) : ~MatchIssuer(Issuers[j], issuerClaim[p])
        /\ \A i \in VerifyCalls(p) \cup ClaimsCalls(p) :
              issuer[p] # 0 /\ calls[p][i].issuer = issuer[p]
        /\ Ran(p, "verify") => Cardinality(VerifyCalls(p)) = 1
        /\ (Returned(p) /\ err[p] = NilErr) =>
              /\ Cardinality(ClaimsCalls(p)) = 1
              /\ claims[p] = Claims(Issuers[issuer[p]], payload[p]).claims
              /\ claims[p].dyn = Issuers[issuer[p]].type

\* C10 witness: two issuers of the registry match the token's iss, and the
\* first has verified the token and decoded its claims.
C10_Witness ==
    \E p \in Procs :
        /\ Returned(p) /\ err[p] = NilErr
        /\ issuer[p] = 1
        /\ Len(Issuers) >= 2
        /\ MatchIssuer(Issuers[2], issuerClaim[p])
        /\ Issuers[2].type # Issuers[1].type
        /\ claims[p].dyn = Issuers[1].type

\* ---------------------------------------------------------------- C11
\* The whole string iss matches the pattern of an issuer of type t from its
\* first to its last character: it is one line, and that line matches.
WholeMatch(t, iss) == Len(iss) = 1 /\ iss[1] \in PatternLines(t)

IssuerTypes == { "identity", "rac", "google" }

\* C11: MatchIssuer(s) is true only if the whole string s matches the
\* issuer's pattern from its first to its last character: a string that only
\* holds a matching line is not accepted, and a string another issuer's
\* pattern accepts is not accepted.
C11_MatchIsWholeString ==
    \A p \in Procs :
        Ran(p, "find") =>
            \A k \in 1..Len(Issuers) :
                MatchIssuer(Issuers[k], issuerClaim[p]) =>
                    /\ WholeMatch(Issuers[k].type, issuerClaim[p])
                    /\ \A t \in IssuerTypes \ { Issuers[k].type } :
                          ~MatchIssuer([type |-> t, JwksURL |-> J1], issuerClaim[p])

\* C11, what holds: on a string of one line, MatchIssuer is the whole-string
\* match, and the three patterns accept no string in common.
C11_SingleLineExact ==
    \A p \in Procs :
        (Ran(p, "find") /\ Len(issuerClaim[p]) = 1) =>
            \A k \in 1..Len(Issuers) :
                /\ MatchIssuer(Issuers[k], issuerClaim[p])
                      <=> WholeMatch(Issuers[k].type, issuerClaim[p])
                /\ MatchIssuer(Issuers[k], issuerClaim[p]) =>
                      \A t \in IssuerTypes \ { Issuers[k].type } :
                          ~MatchIssuer([type |-> t, JwksURL |-> J1], issuerClaim[p])

\* C11: a token whose iss holds a line break, with one line matching, has
\* been matched and accepted.
C11_WitnessLineMatch ==
    \E p \in Procs :
        /\ Returned(p) /\ err[p] = NilErr
        /\ Len(issuerClaim[p]) = 2
        /\ ~WholeMatch(Issuers[issuer[p]].type, issuerClaim[p])

\* ---------------------------------------------------------------- C12
\* The exp of the token call p works on (0 when the payload gives none), and
\* whether its signature is one a key of issuer k's key set made.
TokenExp(p) == JsonParse(payload[p]).obj["exp"].n

SignedFor(p, k) ==
    LET parts == Split(token[p], DOT)
    IN  /\ Len(parts) = 3
        /\ Len(parts[3]) = 1
        /\ parts[3][1] \in Sigs
        /\ SigKey[parts[3][1]] \in JwksKeys(Issuers[k].JwksURL)

NoClaimsYielded(p) ==
    /\ claims[p] = NilClaims
    /\ ~Ran(p, "claims")
    /\ Returned(p) => err[p] # NilErr

\* C12: a token whose iss matched an issuer but whose signature is invalid,
\* or whose exp is not in the future (exp <= now), never yields Claims.
C12_NotInFutureNoClaims ==
    \A p \in Procs :
        (issuer[p] # 0 /\ (~SignedFor(p, issuer[p]) \/ TokenExp(p) <= Now)) =>
            NoClaimsYielded(p)

\* C12 as amended: a token whose iss matched an issuer but whose signature is
\* invalid, or whose exp is in the past (exp < now), never yields Claims,
\* whatever its audience or client id.
C12_ExpiredOrBadSignatureNoClaims ==
    \A p \in Procs :
        (issuer[p] # 0 /\ (~SignedFor(p, issuer[p]) \/ TokenExp(p) < Now)) =>
            NoClaimsYielded(p)

\* C12 witness: an expired token with a valid signature and a matching iss
\* has been refused by the verifier.
C12_Witness ==
    \E p \in Procs :
        /\ Returned(p) /\ Ran(p, "verify")
        /\ SignedFor(p, issuer[p])
        /\ TokenExp(p) < Now
        /\ IsTokenVerification(err[p])
        /\ claims[p] = NilClaims

\* C12 witness: a token with a matching iss, an exp in the future and an
\* invalid signature has been refused by the verifier.
C12_WitnessBadSignature ==
    \E p \in Procs :
        /\ Returned(p) /\ Ran(p, "verify")
        /\ ~SignedFor(p, issuer[p])
        /\ TokenExp(p) > Now
        /\ IsTokenVerification(err[p])

\* C12 witness: a token whose exp is the verifier's clock has yielded Claims.
C12_WitnessExpiresNow ==
    \E p \in Procs :
        /\ Returned(p) /\ err[p] = NilErr
        /\ TokenExp(p) = Now
        /\ claims[p] # NilClaims

\* ---------------------------------------------------------------- C13
\* Read from the payload's JSON itself: the string member key when it is a
\* non-empty string, "-" otherwise; the roles member.
ApiMember(key) == JsonParse(api.payload).obj[key]

FieldOrDash(key) ==
    IF ApiMember(key).t = "string" /\ ApiMember(key).s # EmptyString
      THEN ApiMember(key).s
    ELSE Dash

ApiHasRead == api.pc \in { "read", "got", "done" }

\* C13: for Claims decoded from any payload, each string accessor of
\* ClaimsBase returns the payload's field when it is a non-empty string and
\* "-" when it is empty or absent, and ClaimRoles returns the roles as they
\* are, or an empty non-nil sequence when there are none.  (The two accessors
\* racClaims overrides are read on the claims of the other issuers; C14 is
\* about the overrides.)
C13_AccessorDefaults ==
    ApiHasRead =>
        /\ api.read.FullName = FieldOrDash("fullName")
        /\ api.read.Email = FieldOrDash("email")
        /\ api.read.ClientID = FieldOrDash("client_id")
        /\ api.read.Audience = FieldOrDash("aud")
        /\ api.read.Issuer = FieldOrDash("iss")
        /\ api.i.type # "rac" =>
              /\ api.read.TenantIdpID = FieldOrDash("tenantIdpId")
              /\ api.read.CompanyID = FieldOrDash("companyId")
        /\ ~api.read.Roles.isNil
        /\ api.read.Roles.elems =
              IF ApiMember("roles").t = "array" THEN ApiMember("roles").a ELSE << >>

\* C13 witness: the accessors were read on claims decoded from a payload
\* that gives some fields and not others.
C13_Witness ==
    /\ ApiHasRead
    /\ api.err = NilErr
    /\ api.read.Email = << "totvs@totvs.com.br" >>
    /\ api.read.Roles.elems = << "admin" >>
    /\ ApiMember("fullName").t = "absent" /\ api.read.FullName = Dash
    /\ ApiMember("companyId").t = "absent" /\ api.read.CompanyID = Dash

\* C13 witness: a payload with every optional field absent, and one with
\* every string field empty.
C13_WitnessAllAbsent ==
    /\ ApiHasRead
    /\ api.err = NilErr
    /\ \A k \in JsonKeys \ { "exp" } : ApiMember(k).t = "absent"
    /\ api.read.Issuer = Dash /\ api.read.Audience = Dash
    /\ api.read.Roles = [isNil |-> FALSE, elems |-> << >>]

C13_WitnessAllEmpty ==
    /\ ApiHasRead
    /\ api.err = NilErr
    /\ ApiMember("email") = JStr(EmptyString)
    /\ ApiMember("client_id") = JStr(EmptyString)
    /\ api.read.Email = Dash /\ api.read.ClientID = Dash

\* ---------------------------------------------------------------- C14
\* C14: on the Claims of a RAC issuer, ClaimTenantIdpID and ClaimCompanyID
\* both return the claim http://www.tnf.com/identity/claims/tenantId when it
\* is a non-empty string and "-" otherwise, whatever tenantIdpId and
\* companyId the payload gives.
C14_RacReadsVendorClaim ==
    (ApiHasRead /\ api.i.type = "rac") =>
        /\ api.read.TenantIdpID = FieldOrDash("racTenantId")
        /\ api.read.CompanyID = FieldOrDash("racTenantId")

\* C14 witness: RAC claims of a payload whose tenantIdpId differs from the
\* vendor claim have been read.
C14_Witness ==
    /\ ApiHasRead /\ api.i.type = "rac"
    /\ ApiMember("tenantIdpId") = JStr(<< "base" >>)
    /\ ApiMember("racTenantId") = JStr(<< "t1" >>)
    /\ api.read.TenantIdpID = << "t1" >>
    /\ api.read.CompanyID = << "t1" >>

\* C14 witness: RAC claims of a payload that gives tenantIdpId and companyId
\* and no vendor claim have been read.
C14_WitnessNoVendorClaim ==
    /\ ApiHasRead /\ api.i.type = "rac"
    /\ ApiMember("tenantIdpId") = JStr(<< "base" >>)
    /\ ApiMember("companyId") = JStr(<< "co1" >>)
    /\ ApiMember("racTenantId").t = "absent"
    /\ api.read.TenantIdpID = Dash
    /\ api.read.CompanyID = Dash

\* ---------------------------------------------------------------- C15
\* The roles the payload gives, read from its JSON.
PayloadRoles == IF ApiMember("roles").t = "array" THEN ApiMember("roles").a ELSE << >>

\* The context handed to HasRole holds Claims under the key.
ApiHoldsClaims == api.ctxKind = "claims"

\* C15: HasRole(ctx, role) is false when the context holds no claims, and
\* otherwise true exactly when role equals, case and all, some element of
\* the claims' ClaimRoles().
C15_HasRoleIsMembership ==
    api.pc = "done" =>
        /\ ~ApiHoldsClaims => ~api.has
        /\ ApiHoldsClaims =>
              /\ api.has <=> \E k \in 1..Len(PayloadRoles) : PayloadRoles[k] = api.role
              /\ api.has <=> \E k \in 1..Len(api.read.Roles.elems) :
                                 api.read.Roles.elems[k] = api.role

\* C15 witness: HasRole was asked for "Admin" on claims whose roles hold
\* "admin", and answered false.
C15_Witness ==
    /\ api.pc = "done" /\ ApiHoldsClaims
    /\ api.role = "Admin"
    /\ PayloadRoles = << "admin", "user" >>
    /\ ~api.has

\* C15 witnesses: a role that is the second element; a context without
\* claims.
C15_WitnessMember ==
    /\ api.pc = "done" /\ ApiHoldsClaims
    /\ api.role = "user"
    /\ PayloadRoles = << "admin", "user" >>
    /\ api.has

C15_WitnessNoClaims ==
    /\ api.pc = "done" /\ api.ctxKind = "none"
    /\ api.role = "admin"
    /\ ~api.has

\* ---------------------------------------------------------------- C16
ApiHasGot == api.pc \in { "got", "done" }

\* C16: GetIssuerClaimsFromContext never panics; on a context that holds no
\* value under the claims key, or a value that is not Claims, it returns nil.
C16_GetClaimsNeverPanics ==
    ApiHasGot =>
        /\ ~api.got.panic
        /\ ~ApiHoldsClaims => api.got.val = NilClaims

\* C16, what holds: package auth's GetIssuerClaimsFromContext does not panic
\* and returns nil without Claims in the context; and every version returns
\* the Claims the context holds.
C16_AuthPackageNeverPanics ==
    ApiHasGot =>
        /\ api.version = "auth" =>
              /\ ~api.got.panic
              /\ ~ApiHoldsClaims => api.got.val = NilClaims
        /\ ApiHoldsClaims => ~api.got.panic /\ api.got.val = api.claims

\* C16: an earlier version's GetIssuerClaimsFromContext was called on a
\* context without a value under the key, and panicked.
C16_WitnessPanic ==
    /\ ApiHasGot
    /\ api.version = "auth/middleware"
    /\ api.ctxKind = "none"
    /\ api.got.panic

\* ---------------------------------------------------------------- C17
SameResult(p, q) == claims[p] = claims[q] /\ err[p] = err[q]

\* C17: two calls of IsValidBearerToken with the same request and the same
\* registry return the same Claims (and the same error), and no step of any
\* call, successful or failing, changes the registry.
C17_SameClaimsTwiceRegistryKept ==
    /\ [](\A p, q \in Procs :
            (req[p] = req[q] /\ Returned(p) /\ Returned(q)) => SameResult(p, q))
    /\ [][Issuers' = Issuers]_vars

\* C17 witness: the same valid token was presented twice and both calls
\* have returned Claims.
C17_Witness ==
    /\ Procs = { 1, 2 }
    /\ req[1] = req[2]
    /\ Returned(1) /\ Returned(2)
    /\ err[1] = NilErr /\ err[2] = NilErr
    /\ claims[1] # NilClaims /\ claims[1] = claims[2]
    /\ Len(Issuers) = 3

\* C17 witness: the first call has returned Claims before the second has
\* taken a step; and a failing pair.
C17_WitnessOneAfterTheOther ==
    /\ Procs = { 1, 2 }
    /\ req[1] = req[2]
    /\ Returned(1) /\ err[1] = NilErr
    /\ pc[2] = "extract"

C17_WitnessFailing ==
    /\ Procs = { 1, 2 }
    /\ req[1] = req[2]
    /\ Returned(1) /\ Returned(2)
    /\ IsTokenVerification(err[1]) /\ err[2] = err[1]

\* ---------------------------------------------------------------- C18
\* What call q holds: its locals, its result and what the middleware did
\* with it.
CallState(q) ==
    << token[q], payload[q], issuerClaim[q], issuer[q], claims[q], err[q],
       calls[q], w[q], ctx[q], handler[q], stages[q] >>

\* C18: in every interleaving of concurrent calls on one registry, each call
\* returns what IsValidBearerToken returns for its request run alone, and a
\* step of one call leaves what every other call holds, and the registry, as
\* they were.
C18_CallsDoNotInterfere ==
    /\ [](\A p \in Procs :
            Returned(p) =>
                [claims |-> claims[p], err |-> err[p]] = IsValidBearerToken(req[p]))
    /\ [][\A q \in Procs : pc'[q] = pc[q] => CallState(q)' = CallState(q)]_vars
    /\ [][Issuers' = Issuers /\ req' = req]_vars

\* C18 witness: two calls with tokens of different issuers are both under
\* way, the one verified and the other not yet, and both then return their
\* own issuer's Claims.
C18_Witness ==
    /\ Procs = { 1, 2 }
    /\ Returned(1) /\ Returned(2)
    /\ err[1] = NilErr /\ err[2] = NilErr
    /\ claims[1].dyn = "identity" /\ claims[2].dyn = "rac"

C18_WitnessInterleaved ==
    /\ Procs = { 1, 2 }
    /\ pc[1] = "claims" /\ pc[2] = "verify"
    /\ issuer[1] # issuer[2]
    /\ req[1] # req[2]

\* C18 witness: one call fails while the other, on the same registry,
\* succeeds.
C18_WitnessMixed ==
    /\ Procs = { 1, 2 }
    /\ Returned(1) /\ Returned(2)
    /\ err[1] = NilErr /\ IsTokenVerification(err[2])

\* ---------------------------------------------------------------- C19
IsContextCanceled(e) ==
    e = << "failed to verify JWT: ", "failed to verify signature: ",
           "fetching keys ", "context canceled" >>

\* Call p of IsValidBearerToken waits in Verify and its request's context
\* has been cancelled.
CancelledWhilePending(p) ==
    pkg = "auth" /\ pc[p] = "verifying" /\ cancelled[p]

\* C19: when the request's context is cancelled while the verification is
\* pending, the call eventually returns an error.
C19_CancelledReturnsError ==
    \A p \in { 1 } :
        CancelledWhilePending(p) ~> (Returned(p) /\ err[p] # NilErr)

\* C19 as amended: when the request's context is cancelled while the
\* verification is pending, the call eventually returns: with the context's
\* error if the keys had not arrived, with the verifier's verdict if they
\* had.
C19_CancelledReturns ==
    \A p \in { 1 } :
        CancelledWhilePending(p) ~>
            (Returned(p) /\ (fetch[p] = "pending" => IsContextCanceled(err[p])))

\* C19 witness: a call whose context was cancelled during the wait has
\* returned the context's error.
C19_Witness ==
    \E p \in Procs :
        /\ pkg = "auth"
        /\ cancelled[p]
        /\ Ran(p, "wait")
        /\ Returned(p)
        /\ fetch[p] = "pending"
        /\ IsContextCanceled(err[p])
        /\ claims[p] = NilClaims

\* C19 witness: the keys arrived after the cancellation, and the call has
\* returned Claims.
C19_WitnessKeysArrived ==
    \E p \in Procs :
        /\ pkg = "auth"
        /\ cancelled[p]
        /\ Ran(p, "wait")
        /\ Returned(p)
        /\ fetch[p] = "done"
        /\ err[p] = NilErr
        /\ claims[p] # NilClaims

\* ---------------------------------------------------------------- C20
\* The message with every byte that is not valid UTF-8 replaced by U+FFFD.
ToValidUTF8(s) == [ k \in 1..Len(s) |-> IF s[k] = BadByte THEN Replacement ELSE s[k] ]

IsSuffix(m, e) ==
    Len(m) <= Len(e) /\ SubSeq(e, Len(e) - Len(m) + 1, Len(e)) = m

\* The messages with which an issuer's Verify failed during call p.
VerifyFailures(p) ==
    { calls[p][i].err : i \in { j \in VerifyCalls(p) : calls[p][j].err # NilErr } }

\* C20: when the matched issuer's Verify fails with message m, the error
\* IsValidBearerToken returns contains m unchanged, and the error member of
\* the middleware's 401 JSON body is the returned error's message, byte for
\* byte.
C20_VerifyMessageVerbatim ==
    \A p \in Procs :
        \A m \in VerifyFailures(p) :
            pkg = "auth" =>
                /\ Returned(p) => IsSuffix(m, err[p]) /\ claims[p] = NilClaims
                /\ pc[p] = "done" =>
                      /\ w[p].status = 401
                      /\ ParseErrorBody(w[p].body).ok
                      /\ ParseErrorBody(w[p].body).error = err[p]

\* C20 as amended: the returned error contains m unchanged, and the error
\* member of the 401 body is the returned error's message with every byte
\* that is not valid UTF-8 replaced by U+FFFD: the message itself when it is
\* valid UTF-8.
C20_VerifyMessageAsValidUTF8 ==
    \A p \in Procs :
        \A m \in VerifyFailures(p) :
            pkg = "auth" =>
                /\ Returned(p) => IsSuffix(m, err[p]) /\ claims[p] = NilClaims
                /\ pc[p] = "done" =>
                      /\ w[p].status = 401
                      /\ ParseErrorBody(w[p].body).ok
                      /\ ParseErrorBody(w[p].body).error = ToValidUTF8(err[p])
                      /\ ~Contains(err[p], BadByte) =>
                            ParseErrorBody(w[p].body).error = err[p]

\* C20 witness: Verify failed on the signature and the 401 body carries the
\* returned error's message.
C20_Witness ==
    \E p \in Procs :
        /\ pkg = "auth" /\ pc[p] = "done"
        /\ VerifyFailures(p) =
              { << "failed to verify signature: ", "failed to verify id token signature" >> }
        /\ err[p] = << "failed to verify JWT: ", "failed to verify signature: ",
                       "failed to verify id token signature" >>
        /\ ParseErrorBody(w[p].body).error = err[p]

\* C20 witness: Verify failed with a message that quotes the JWKS endpoint's
\* answer, and the 401 body carries U+FFFD where the message has the byte
\* 0xFF.
C20_WitnessReplaced ==
    \E p \in Procs :
        /\ pkg = "auth" /\ pc[p] = "done"
        /\ VerifyFailures(p) = { GetKeysFailed }
        /\ Contains(err[p], BadByte)
        /\ Contains(ParseErrorBody(w[p].body).error, Replacement)
        /\ ~Contains(ParseErrorBody(w[p].body).error, BadByte)


\* ---------------------------------------------------------------- C21
\* C21: whenever IsValidBearerToken returns a non-nil error, the Claims it
\* returns is nil, whatever stage failed: a claims-decode failure after a
\* successful Verify included.
C21_ErrorMeansNilClaims ==
    \A p \in Procs :
        (Returned(p) /\ err[p] # NilErr) => claims[p] = NilClaims

\* C21 without the claims-decode stage: every failure before iss.Claims
\* returns nil Claims.
C21_EarlierFailuresNilClaims ==
    \A p \in Procs :
        (Returned(p) /\ err[p] # NilErr /\ ~Ran(p, "claims")) => claims[p] = NilClaims

\* The case C21 fails on: Verify accepted the token, the claims decode
\* failed, and the call returned the error with a Claims value that is not
\* nil.
C21_WitnessDecodeFailure ==
    \E p \in Procs :
        /\ pkg = "auth" /\ Returned(p)
        /\ \E i \in VerifyCalls(p) : calls[p][i].err = NilErr
        /\ Ran(p, "claims")
        /\ err[p] # NilErr
        /\ claims[p] # NilClaims


\* ---------------------------------------------------------------- C22
\* C22: IsValidBearerToken reports the no-credentials error only for requests
\* that carry neither a non-empty Authorization header nor a jwt.token
\* cookie; a request that carries either one fails, if it fails, with another
\* error kind.
C22_NoCredentialsOnlyWithout ==
    \A p \in Procs :
        (pkg = "auth" /\ Returned(p) /\ IsNoCredentials(err[p])) =>
            HeaderGet(req[p]) = Empty /\ ~req[p].hasCookie

\* What the code reports the no-credentials error for: the requests whose
\* extracted token is "", and no others.
C22_NoCredentialsIffEmptyToken ==
    \A p \in Procs :
        (pkg = "auth" /\ Returned(p)) =>
            (IsNoCredentials(err[p]) <=>
                tokenSource(req[p]) = [token |-> Empty, err |-> NilErr])

\* The cases C22 fails on: a request with the header "Bearer " and one with
\* an empty jwt.token cookie, both answered with the no-credentials error.
C22_WitnessEmptyBearer ==
    \E p \in Procs :
        /\ pkg = "auth" /\ Returned(p) /\ IsNoCredentials(err[p])
        /\ HeaderGet(req[p]) = << "Bearer", SP >>

C22_WitnessEmptyCookie ==
    \E p \in Procs :
        /\ pkg = "auth" /\ Returned(p) /\ IsNoCredentials(err[p])
        /\ HeaderGet(req[p]) = Empty /\ req[p].hasCookie /\ req[p].cookie = Empty


\* ---------------------------------------------------------------- C23
\* The stages of a call in their order: credential extraction, token split and
\* payload decode (parseJWT), issuer peek, issuer match, Verify, claims
\* decode.
StageOrder == << "extract", "parse", "peek", "find", "verify", "claims" >>

IsPrefix(s, t) == Len(s) <= Len(t) /\ SubSeq(t, 1, Len(s)) = s

\* The stages of the call itself, without the middleware's step after it.
CallStages(p) ==
    IF stages[p] # << >> /\ stages[p][Len(stages[p])] \in { "reject", "next" }
      THEN SubSeq(stages[p], 1, Len(stages[p]) - 1)
    ELSE stages[p]

\* The stage an error comes from, read off its message.
StageOfError(e) ==
    IF IsNoCredentials(e) \/ IsMalformedHeader(e) \/ IsUnsupportedScheme(e)
       \/ e = << "header authorization not found" >> THEN "extract"
    ELSE IF IsMalformedToken(e) \/ IsMalformedPayload(e) THEN "parse"
    ELSE IF IsIssuerPeek(e) THEN "peek"
    ELSE IF IsIssuerNotFound(e) THEN "find"
    ELSE IF IsTokenVerification(e) THEN "verify"
    ELSE IF Len(e) >= 1 /\ e[1] = "JWT: failed to unmarshal claims: " THEN "claims"
    ELSE "none"

StagesInOrder ==
    \A p \in Procs :
        /\ IsPrefix(CallStages(p), StageOrder)
        /\ Cardinality(VerifyCalls(p)) <= 1
        /\ Cardinality(ClaimsCalls(p)) <= 1
        /\ (VerifyCalls(p) # {}) = Ran(p, "verify")
        /\ ~Returned(p) => err[p] = NilErr
        /\ (Returned(p) /\ err[p] # NilErr) =>
              StageOfError(err[p]) = CallStages(p)[Len(CallStages(p))]
        /\ (Returned(p) /\ err[p] = NilErr) => CallStages(p) = StageOrder
        /\ (Returned(p) /\ IsMalformedToken(err[p])) =>
              Len(Split(token[p], DOT)) < 2
        /\ (Returned(p) /\ IsMalformedPayload(err[p])) =>
              Len(Split(token[p], DOT)) >= 2

\* A call that has returned runs no further stage, and what it returned stays.
NoStageAfterReturn ==
    \A p \in Procs :
        /\ pc[p] = "returned" =>
              /\ stages'[p] \in { stages[p], Append(stages[p], "reject"),
                                  Append(stages[p], "next") }
              /\ err'[p] = err[p] /\ calls'[p] = calls[p]
        /\ pc[p] = "done" =>
              stages'[p] = stages[p] /\ err'[p] = err[p] /\ calls'[p] = calls[p]
        /\ stages'[p] # stages[p] =>
              Len(stages'[p]) = Len(stages[p]) + 1 /\ IsPrefix(stages[p], stages'[p])

\* C23: each request goes through credential extraction, token split, payload
\* decode, issuer peek, issuer match, Verify and claims decode in that order,
\* each at most once; the first stage that fails ends the call with that
\* stage's error and no later stage runs: no retry, no step backwards, Verify
\* at most once per request.
C23_StagesOnceInOrder == [] StagesInOrder /\ [][NoStageAfterReturn]_vars

\* C23 witness: a call that failed in Verify, after the five stages before it
\* and without a claims decode.
C23_Witness ==
    \E p \in Procs :
        /\ pc[p] = "done"
        /\ CallStages(p) = << "extract", "parse", "peek", "find", "verify" >>
        /\ StageOfError(err[p]) = "verify"
        /\ Cardinality(VerifyCalls(p)) = 1

\* C23 witness: a call that failed at the payload decode.
C23_WitnessDecode ==
    \E p \in Procs :
        /\ Returned(p) /\ CallStages(p) = << "extract", "parse" >>
        /\ IsMalformedPayload(err[p])

\* C23 witness: a call that went through all the stages.
C23_WitnessAll ==
    \E p \in Procs :
        Returned(p) /\ err[p] = NilErr /\ CallStages(p) = StageOrder


\* ---------------------------------------------------------------- C24
\* The id the middleware must use for a request: X-Request-Id when it is not
\* empty, else X-Correlation-Id when it is not empty, else a generated one.
IsTraceIdOf(tid, reqId, corrId) ==
    IF reqId # "" THEN tid = reqId
    ELSE IF corrId # "" THEN tid = corrId
    ELSE tid \in GeneratedIds

\* C24: the logging middleware uses as trace id the request's X-Request-Id
\* when not empty, else its X-Correlation-Id when not empty, else a freshly
\* generated id; that one id is what the handler reads from the context, what
\* the request log carries as trace_id, and, with AddTraceHeader and a
\* response that has no X-Request-Id yet, what is set as the response's
\* X-Request-Id.
C24_OneTraceId ==
    /\ logmw.pc \notin { "idle", "trace" } =>
          /\ IsTraceIdOf(logmw.tid, logmw.reqId, logmw.corrId)
          /\ logmw.tid # ""
    /\ \A k \in 1..Len(logmw.out) :
          logmw.out[k].message = "http request received" =>
              Field(logmw.out[k], "trace_id") = logmw.tid
    /\ logmw.pc = "done" =>
          /\ logmw.served = 1
          /\ logmw.seen.trace = logmw.tid
          /\ (logmw.opts.AddTraceHeader /\ logmw.respIn = "") => logmw.resp = logmw.tid

\* C24 witness: a request with both headers, served with the request log
\* written and the response header set to the X-Request-Id value.
C24_Witness ==
    /\ logmw.pc = "done"
    /\ logmw.reqId = "trace-123" /\ logmw.corrId = "corr-456"
    /\ logmw.opts.AddTraceHeader /\ logmw.opts.LogRequest
    /\ Len(logmw.out) = 1 /\ Field(logmw.out[1], "trace_id") = "trace-123"
    /\ logmw.seen.trace = "trace-123"
    /\ logmw.resp = "trace-123"

\* C24 witness: only X-Correlation-Id is given.
C24_WitnessCorrelation ==
    /\ logmw.pc = "done"
    /\ logmw.reqId = "" /\ logmw.corrId = "corr-456"
    /\ Len(logmw.out) = 1
    /\ logmw.seen.trace = "corr-456" /\ logmw.resp = "corr-456"

\* C24 witness: no header is given and the id is generated.
C24_WitnessGenerated ==
    /\ logmw.pc = "done"
    /\ logmw.reqId = "" /\ logmw.corrId = ""
    /\ Len(logmw.out) = 1
    /\ logmw.seen.trace \in GeneratedIds /\ logmw.resp = logmw.seen.trace

\* C24 witness: the response had its X-Request-Id already, and keeps it.
C24_WitnessHeaderKept ==
    /\ logmw.pc = "done" /\ logmw.opts.AddTraceHeader
    /\ logmw.respIn = "outer-789" /\ logmw.resp = "outer-789"
    /\ logmw.seen.trace = "trace-123"


\* ---------------------------------------------------------------- C30
\* The middleware has written the request-level log of the request.
RequestLogEmitted ==
    \E k \in 1..Len(logmw.out) : logmw.out[k].message = "http request received"

\* C30: for every combination of the options LogRequest and InjectLogger, the
\* second value GetLoggerFromRequest returns inside the wrapped handler is
\* true if and only if the middleware already emitted the request-level log
\* for that request.
C30_LoggedIffEmitted ==
    logmw.pc = "done" => (logmw.seen.logged <=> RequestLogEmitted)

\* What the code returns as second value: true exactly when both LogRequest
\* and InjectLogger are set.
C30_LoggedIffBothOptions ==
    logmw.pc = "done" =>
        (logmw.seen.logged <=> (logmw.opts.LogRequest /\ logmw.opts.InjectLogger))

\* The case C30 fails on: the request log was written, no logger was
\* injected, and the handler is told the request was not logged.
C30_WitnessLoggedNotInjected ==
    /\ logmw.pc = "done"
    /\ logmw.opts.LogRequest /\ ~logmw.opts.InjectLogger
    /\ RequestLogEmitted
    /\ ~logmw.seen.logged
    /\ logmw.seen.lf = GetGlobalDefault

\* The other case: the base logger's level is above info, nothing was
\* written, and the handler is told the request was logged.
C30_WitnessMarkedNotEmitted ==
    /\ logmw.pc = "done"
    /\ logmw.opts.LogRequest /\ logmw.opts.InjectLogger
    /\ logmw.base = NewLog("warn")
    /\ ~RequestLogEmitted
    /\ logmw.seen.logged


\* ---------------------------------------------------------------- C25
ReturnedCached ==
    /\ \A r \in metrics.rets :
          /\ r.key \in DOMAIN metrics.cache
          /\ metrics.cache[r.key] = r.m
          /\ r.m # NilMetric
    /\ \A a, b \in metrics.rets : a.key = b.key => a.m = b.m
    /\ \A j, k \in DOMAIN metrics.cache :
          metrics.cache[j].id = metrics.cache[k].id => j = k

EntryKept ==
    \A k \in DOMAIN metrics.cache :
        k \in DOMAIN metrics'.cache /\ metrics'.cache[k] = metrics.cache[k]

\* C25: under every interleaving of concurrent GetOrCreateCounter (likewise
\* Gauge, Histogram) calls on one facade with the same name, metric type and
\* metric class, every call whose creation succeeds returns the same cached
\* instance, and once a key is cached its entry is never replaced.
C25_SameCachedInstance == [] ReturnedCached /\ [][EntryKept]_vars

\* C25 witness: two goroutines both missed the cache for one key and both
\* created a metric; one stored its own, the other got that one back from
\* LoadOrStore, and both hold the cached instance.
C25_Witness ==
    /\ metrics.g # << >>
    /\ metrics.g[1].pc = "use" /\ metrics.g[2].pc = "use"
    /\ metrics.g[1].key = metrics.g[2].key
    /\ metrics.g[1].newMetric # NilMetric /\ metrics.g[2].newMetric # NilMetric
    /\ metrics.g[1].newMetric # metrics.g[2].newMetric
    /\ metrics.g[1].ret = metrics.g[2].ret
    /\ metrics.g[1].ret = metrics.cache[metrics.g[1].key]

\* C25 witness: a later call finds the entry with Load and returns it.
C25_WitnessLoaded ==
    /\ metrics.g # << >>
    /\ \E p \in MetricProcs :
          /\ metrics.g[p].pc = "use" /\ metrics.g[p].newMetric = NilMetric
          /\ ~metrics.g[p].failed
          /\ metrics.g[p].ret = metrics.cache[metrics.g[p].key]
          /\ metrics.g[p].in.kind = "gauge"


\* ---------------------------------------------------------------- C26
\* C26: when the meter fails to create an instrument, GetOrCreateCounter,
\* GetOrCreateGauge and GetOrCreateHistogram return a no-op metric: every
\* later Add, Inc, Set or Record on the returned value does nothing and does
\* not panic.
C26_FailedCreationIsNoOp ==
    /\ \A u \in metrics.uses : u.failed => u.outcome = "noop"
    /\ (\E u \in metrics.uses : u.failed) => ~metrics.crashed

\* What holds of the metrics whose creation did not fail: their methods
\* record, and no method panics on them.
C26_CreatedMetricsRecord ==
    \A u \in metrics.uses : ~u.failed => u.outcome = "recorded"

\* The case C26 fails on: the meter failed, Inc was called on the counter
\* returned, and the call panicked.
C26_WitnessPanic ==
    /\ metrics.crashed
    /\ [kind |-> "counter", op |-> "Inc", failed |-> TRUE, outcome |-> "panic"]
          \in metrics.uses


\* ---------------------------------------------------------------- C27
\* C27: the global logger (likewise the global metrics facade) is safe for
\* concurrent use: under every interleaving of SetGlobal and GetGlobal calls,
\* GetGlobal never returns nil, and once SetGlobal(l) with a non-nil l has
\* completed, every later GetGlobal returns l or a value that a later
\* SetGlobal stored, never the no-op fallback.  (after: the GetGlobal call
\* began when such a SetGlobal had completed; nilSet: some SetGlobal(nil) was
\* made, which the claim does not speak of.)
C27_GlobalNeverFallsBack ==
    \A g \in global.gets :
        /\ g.ret # NilFacade
        /\ (g.after /\ ~g.nilSet) => g.ret \in Facades

\* What holds of the code: GetGlobal never returns nil, and a GetGlobal that
\* finds a facade stored returns it.
C27_NeverNil ==
    \A g \in global.gets : g.ret \in Facades \cup { NopFacade }

\* The case C27 fails on: a GetGlobal that found nothing stored writes the
\* fallback over the facade a SetGlobal stored in between, and a GetGlobal
\* begun after that SetGlobal returns the fallback.
C27_WitnessFallbackAfterSet ==
    /\ global.stored.lf = NopFacade
    /\ global.setDone /\ ~global.nilSet
    /\ [after |-> TRUE, nilSet |-> FALSE, ret |-> NopFacade] \in global.gets
    /\ [after |-> FALSE, nilSet |-> FALSE, ret |-> NopFacade] \in global.gets


\* ---------------------------------------------------------------- C28
\* The request made of the jwt.token cookie of r alone.
CookieOnly(r) ==
    [hasAuthorization |-> FALSE, authorization |-> Empty,
     hasCookie |-> r.hasCookie, cookie |-> r.cookie]

\* The cookie of r holds a token the registry accepts.
CookieIsValid(r) ==
    r.hasCookie /\ r.cookie # Empty /\ IsValidBearerToken(CookieOnly(r)).err = NilErr

\* C28: when the Authorization header is not empty the jwt.token cookie is
\* never consulted: the call works on the header alone, so a request whose
\* header is malformed, has another scheme than Bearer or carries an invalid
\* token is rejected even when its cookie holds a valid token.
C28_HeaderShadowsCookie ==
    \A p \in Procs :
        (pkg = "auth" /\ HeaderGet(req[p]) # Empty) =>
            LET h == extractTokenFromBearer(HeaderGet(req[p]))
            IN  /\ (Returned(p) /\ h.err # NilErr) =>
                      err[p] = h.err /\ claims[p] = NilClaims
                /\ (Returned(p) /\ h.err = NilErr /\ h.token = Empty) =>
                      IsNoCredentials(err[p])
                /\ (Ran(p, "extract") /\ h.err = NilErr /\ h.token # Empty) =>
                      token[p] = h.token
                /\ \A i \in VerifyCalls(p) : calls[p][i].arg = h.token
                /\ (Returned(p) /\ err[p] = NilErr) =>
                      /\ h.err = NilErr
                      /\ \E i \in VerifyCalls(p) :
                            calls[p][i].arg = h.token /\ calls[p][i].err = NilErr
                /\ (pc[p] = "done" /\ err[p] # NilErr) =>
                      w[p].status = 401 /\ handler[p].calls = 0

\* C28 witness: a header of another scheme than Bearer next to a cookie with
\* a valid token, rejected.
C28_Witness ==
    \E p \in Procs :
        /\ pkg = "auth" /\ pc[p] = "done"
        /\ HeaderGet(req[p]) = << "Basic", SP >> \o GoodToken
        /\ req[p].cookie = GoodToken /\ CookieIsValid(req[p])
        /\ IsUnsupportedScheme(err[p])
        /\ w[p].status = 401 /\ handler[p].calls = 0

\* C28 witness: a malformed header next to a cookie with a valid token.
C28_WitnessMalformed ==
    \E p \in Procs :
        /\ pkg = "auth" /\ pc[p] = "done"
        /\ HeaderGet(req[p]) = << "Bearer" >>
        /\ CookieIsValid(req[p])
        /\ IsMalformedHeader(err[p]) /\ w[p].status = 401

\* C28 witness: a Bearer header with a token of a bad signature next to a
\* cookie with a valid token.
C28_WitnessInvalidToken ==
    \E p \in Procs :
        /\ pkg = "auth" /\ pc[p] = "done"
        /\ CookieIsValid(req[p])
        /\ \E i \in VerifyCalls(p) :
              /\ calls[p][i].arg # req[p].cookie
              /\ calls[p][i].err = << "failed to verify signature: ",
                                      "failed to verify id token signature" >>
        /\ IsTokenVerification(err[p]) /\ w[p].status = 401


\* ---------------------------------------------------------------- C29
\* The issuers of the registry that match the iss of call p, by index.
Matching(p) ==
    { k \in 1..Len(Issuers) : MatchIssuer(Issuers[k], issuerClaim[p]) }

IsFirstMatching(p, k) == k \in Matching(p) /\ \A j \in Matching(p) : k <= j

\* Some issuer registered after k matches too and would accept the token.
LaterWouldAccept(p, k) ==
    \E j \in Matching(p) : j > k /\ Verify(Issuers[j], token[p]) = NilErr

\* C29: if the first issuer in registration order that matches iss rejects the
\* token in Verify, the request fails: the issuers registered later are never
\* tried, even when one of them matches iss too and would accept the token.
C29_FirstMatchRejectsThenFail ==
    \A p \in Procs :
        /\ \A i \in VerifyCalls(p) : IsFirstMatching(p, calls[p][i].issuer)
        /\ Cardinality(VerifyCalls(p)) <= 1
        /\ \A i \in VerifyCalls(p) :
              calls[p][i].err # NilErr =>
                  /\ Returned(p)
                  /\ err[p] = << "failed to verify JWT: " >> \o calls[p][i].err
                  /\ claims[p] = NilClaims
                  /\ ClaimsCalls(p) = {}
                  /\ pc[p] = "done" => w[p].status = 401 /\ handler[p].calls = 0

\* C29 witness: the first matching issuer rejected the token, a later one
\* matches and would accept it, and the request was answered 401.
C29_Witness ==
    \E p \in Procs :
        /\ pc[p] = "done"
        /\ \E i \in VerifyCalls(p) :
              /\ calls[p][i].err # NilErr
              /\ LaterWouldAccept(p, calls[p][i].issuer)
        /\ w[p].status = 401 /\ handler[p].calls = 0

====
